---------------------------- MODULE Spec2Model ----------------------------
(***************************************************************************)
(* Model of the stick-ai-frontend query route: the POST handlers of the    *)
(* fusion route (src/app/api/query/route.ts), of the modular route and of  *)
(* the singleton-connection route, the query builders and the result       *)
(* formatters of every revision, two requests served at once, and the      *)
(* form page (src/app/page.tsx).                                           *)
(*                                                                         *)
(* Text is kept as TLA+ strings and the string functions of the source     *)
(* (toLowerCase, trim, split, includes, ILIKE) are computed on them.       *)
(* A JSON value is a record tagged by "kind"; a JavaScript object is the   *)
(* sequence of its entries in insertion order.                             *)
(***************************************************************************)
EXTENDS Integers, Sequences, FiniteSets, TLC

(***************************************************************************)
(* JavaScript values and string functions                                  *)
(***************************************************************************)

Undefined == [kind |-> "undefined"]

Null == [kind |-> "null"]

Num(n) == [kind |-> "num", n |-> n]

Str(s) == [kind |-> "str", s |-> s]

Arr(a) == [kind |-> "arr", a |-> a]

Obj(o) == [kind |-> "obj", o |-> o]

\* Array.prototype.includes on an array of strings
includes(arr, x) == \E i \in 1..Len(arr) : arr[i] = x

\* the elements of a sequence
Range(seq) == {seq[i] : i \in 1..Len(seq)}

\* Array.prototype.join
RECURSIVE join(_, _)
join(arr, sep) ==
  IF arr = <<>> THEN ""
  ELSE IF Len(arr) = 1 THEN arr[1]
  ELSE arr[1] \o sep \o join(Tail(arr), sep)

UpperToLower ==
  ("A" :> "a") @@ ("B" :> "b") @@ ("C" :> "c") @@ ("D" :> "d") @@ ("E" :> "e") @@
  ("F" :> "f") @@ ("G" :> "g") @@ ("H" :> "h") @@ ("I" :> "i") @@ ("J" :> "j") @@
  ("K" :> "k") @@ ("L" :> "l") @@ ("M" :> "m") @@ ("N" :> "n") @@ ("O" :> "o") @@
  ("P" :> "p") @@ ("Q" :> "q") @@ ("R" :> "r") @@ ("S" :> "s") @@ ("T" :> "t") @@
  ("U" :> "u") @@ ("V" :> "v") @@ ("W" :> "w") @@ ("X" :> "x") @@ ("Y" :> "y") @@
  ("Z" :> "z")

\* String.prototype.toLowerCase, character by character
RECURSIVE toLowerCase(_)
toLowerCase(s) ==
  IF s = "" THEN ""
  ELSE LET c == SubSeq(s, 1, 1)
       IN  (IF c \in DOMAIN UpperToLower THEN UpperToLower[c] ELSE c)
             \o toLowerCase(SubSeq(s, 2, Len(s)))

\* String.prototype.trim: leading and trailing blanks removed
RECURSIVE trimStart(_)
trimStart(s) ==
  IF s # "" /\ SubSeq(s, 1, 1) = " " THEN trimStart(SubSeq(s, 2, Len(s))) ELSE s

RECURSIVE trimEnd(_)
trimEnd(s) ==
  IF s # "" /\ SubSeq(s, Len(s), Len(s)) = " " THEN trimEnd(SubSeq(s, 1, Len(s) - 1)) ELSE s

trim(s) == trimEnd(trimStart(s))

\* String.prototype.includes: k occurs in s
strIncludes(s, k) ==
  \E i \in 1..(Len(s) - Len(k) + 1) : SubSeq(s, i, i + Len(k) - 1) = k

\* keyword.split(/\s+/): the pieces between runs of blanks; cur is the piece
\* being read, a leading or trailing run of blanks yields an empty piece
RECURSIVE splitBlanks(_, _, _)
splitBlanks(s, cur, inBlank) ==
  IF s = "" THEN <<cur>>
  ELSE LET c == SubSeq(s, 1, 1)
           rest == SubSeq(s, 2, Len(s))
       IN  IF c = " "
           THEN (IF inBlank THEN <<>> ELSE <<cur>>) \o splitBlanks(rest, "", TRUE)
           ELSE splitBlanks(rest, cur \o c, FALSE)

\* the value of a key of an object (its entries), undefined when absent
RECURSIVE Get(_, _)
Get(o, key) ==
  IF o = <<>> THEN Undefined
  ELSE IF Head(o).k = key THEN Head(o).v
  ELSE Get(Tail(o), key)

\* obj[key] = val: an existing key keeps its place, a new key goes last
RECURSIVE Put(_, _, _)
Put(o, key, val) ==
  IF o = <<>> THEN <<[k |-> key, v |-> val]>>
  ELSE IF Head(o).k = key THEN <<[k |-> key, v |-> val]>> \o Tail(o)
  ELSE <<Head(o)>> \o Put(Tail(o), key, val)

\* JavaScript truthiness
Truthy(v) ==
  CASE v.kind \in {"undefined", "null"} -> FALSE
    [] v.kind = "str" -> v.s # ""
    [] v.kind = "num" -> v.n # 0
    [] OTHER -> TRUE

\* a value interpolated into a template string
ToStr(v) ==
  CASE v.kind = "str" -> v.s
    [] v.kind = "arr" -> join(v.a, ",")
    [] v.kind = "obj" -> "[object Object]"
    [] v.kind = "num" -> ToString(v.n)
    [] v.kind = "null" -> "null"
    [] OTHER -> "undefined"

\* x || y on an optional array of strings
OrEmptyArr(v) == IF v.kind = "arr" THEN v.a ELSE <<>>

\* x || {} on an optional object
OrEmptyObj(v) == IF v.kind = "obj" THEN v.o ELSE <<>>

(***************************************************************************)
(* Generated SQL.  A query is a record of its clauses; the WHERE clause is  *)
(* the sequence of the predicates joined by AND (empty: no WHERE).          *)
(***************************************************************************)

\* (c1 ILIKE '%term%' OR c2 ILIKE '%term%' OR ...)
Like(columns, term) == [kind |-> "like", columns |-> columns, term |-> term]

\* (column LIKE '%term%' OR column LIKE '%term%' ...), case-sensitive
LikeExact(columns, term) == [kind |-> "likeExact", columns |-> columns, term |-> term]

\* (clause OR clause OR ...)
AnyOf(clauses) == [kind |-> "or", clauses |-> clauses]

\* field op 'value'
Cmp(field, op, value) == [kind |-> "cmp", field |-> field, op |-> op, value |-> value]

\* the LIMIT of every generated query
ResultCap == 100

\* the text of the SELECT list, the GROUP BY and the ORDER BY clause
clauseText(group_by) ==
  [select |-> (IF Len(group_by) # 0 THEN join(group_by, ", ") \o ", " ELSE "")
                \o "SUM(BALANCE) AS TOTAL",
   groupBy |-> IF Len(group_by) # 0 THEN "GROUP BY " \o join(group_by, ", ") ELSE "",
   orderBy |-> IF Len(group_by) # 0 THEN "ORDER BY " \o join(group_by, ", ") ELSE ""]

\* SELECT <selectFields,> SUM(BALANCE) AS TOTAL FROM S3_GL [WHERE] [GROUP BY] [ORDER BY] LIMIT
AggregateQuery(group_by, whereClause) ==
  [kind |-> "query", isRaw |-> FALSE, selectFields |-> group_by,
   total |-> <<"SUM", "BALANCE">>, where |-> whereClause,
   groupByClause |-> group_by, orderByClause |-> group_by, limit |-> ResultCap,
   text |-> clauseText(group_by)]

\* SELECT * FROM S3_GL [WHERE] LIMIT
RawQuery(whereClause) ==
  [kind |-> "query", isRaw |-> TRUE, selectFields |-> <<>>,
   total |-> <<>>, where |-> whereClause,
   groupByClause |-> <<>>, orderByClause |-> <<>>, limit |-> ResultCap,
   text |-> [select |-> "*", groupBy |-> "", orderBy |-> ""]]

\* building the query threw a TypeError
QueryThrew == [kind |-> "throw"]

\* table[key] || fallback (every mapped value is a non-empty string)
mapOr(table, key, fallback) == IF key \in DOMAIN table THEN table[key] ELSE fallback

(***************************************************************************)
(* Fusion route: buildSnowflakeQuery of route.ts                            *)
(***************************************************************************)

columnMapping ==
  ("utm id" :> "UTM_ID") @@
  ("gl identifier" :> "UTM_ID") @@
  ("co id" :> "CO_ID") @@
  ("company" :> "CO_ID") @@
  ("name" :> "NAME") @@
  ("company name" :> "NAME") @@
  ("wellcode" :> "WELLCODE") @@
  ("accountingid" :> "WELLCODE") @@
  ("well code" :> "WELLCODE") @@
  ("cost center" :> "WELLCODE") @@
  ("well name" :> "WELL_NAME") @@
  ("cost center name" :> "WELL_NAME") @@
  ("accounting period" :> "PER_END_DATE") @@
  ("month end" :> "PER_END_DATE") @@
  ("posting date" :> "POSTING_DATE") @@
  ("accounting date" :> "LOS_PRODUCTIONDATE") @@
  ("activity date" :> "LOS_PRODUCTIONDATE") @@
  ("excalibur module" :> "SYSTEM_CODE") @@
  ("document" :> "DOCUMENT") @@
  ("journal entry" :> "VOUCHER") @@
  ("description" :> "DESCRIPTION") @@
  ("annotation" :> "ANNOTATION") @@
  ("vendor" :> "VENDORNAME") @@
  ("vendor id" :> "VENDOR_ID") @@
  ("afe" :> "AFE_ID") @@
  ("afe name" :> "AFENAME") @@
  ("gas purchaser" :> "PURCH_ID") @@
  ("purchaser number" :> "PURCH_ID") @@
  ("purchaser" :> "PURCHNAME") @@
  ("gl account" :> "ACCT_ID") @@
  ("account number" :> "ACCT_ID") @@
  ("general ledger account" :> "ACCTNAME") @@
  ("account name" :> "ACCTNAME") @@
  ("mcf" :> "QUANTITY") @@
  ("volume" :> "QUANTITY") @@
  ("quantity" :> "QUANTITY") @@
  ("balance" :> "BALANCE") @@
  ("amount" :> "BALANCE") @@
  ("number" :> "BALANCE") @@
  ("modified by" :> "LAST_CHANGE_BY") @@
  ("created by" :> "CREATED_BY")

\* group_by of buildSnowflakeQuery: each term mapped through the alias table
\* (or kept), then only the catalog's columns kept
resolveGroupBy(table, interpretation, tableColumns) ==
  LET rawGroupBy == OrEmptyArr(interpretation.group_by)
      mapped == [i \in 1..Len(rawGroupBy) |->
                   mapOr(table, toLowerCase(rawGroupBy[i]), rawGroupBy[i])]
      inCatalog(col) == includes(tableColumns, col)
  IN  SelectSeq(mapped, inCatalog)

\* the reduce that builds resolvedFilters: acc[mapped] = val for each entry
\* whose mapped key is a catalog column
RECURSIVE resolveFilters(_, _, _, _)
resolveFilters(table, entries, tableColumns, acc) ==
  IF entries = <<>> THEN acc
  ELSE LET key == Head(entries).k
           mapped == mapOr(table, toLowerCase(key), key)
       IN  resolveFilters(table, Tail(entries), tableColumns,
             IF includes(tableColumns, mapped) THEN Put(acc, mapped, Head(entries).v)
             ELSE acc)

\* one predicate of the else-branch: an [operator, literal] pair or an equality
filterClause(field, condition) ==
  IF condition.kind = "arr" /\ Len(condition.a) = 2
  THEN Cmp(field, condition.a[1], condition.a[2])
  ELSE Cmp(field, "=", ToStr(condition))

\* whereClause of buildSnowflakeQuery: the keyword predicate, else the
\* resolved filters joined by AND, else nothing
whereClauseOf(filters, resolvedFilters) ==
  IF Truthy(Get(filters, "keyword"))
  THEN LET keyword == IF Get(filters, "keyword") = Str("electricity")
                      THEN "electric" ELSE ToStr(Get(filters, "keyword"))
       IN  <<Like(<<"ACCTNAME", "DESCRIPTION", "ANNOTATION">>, keyword)>>
  ELSE IF Len(resolvedFilters) > 0
  THEN [i \in 1..Len(resolvedFilters) |->
          filterClause(resolvedFilters[i].k, resolvedFilters[i].v)]
  ELSE <<>>

buildSnowflakeQuery(interpretation, tableColumns, isRaw) ==
  LET group_by == resolveGroupBy(columnMapping, interpretation, tableColumns)
      filters == OrEmptyObj(interpretation.filters)
      resolvedFilters == resolveFilters(columnMapping, filters, tableColumns, <<>>)
      whereClause == whereClauseOf(filters, resolvedFilters)
  IN  IF isRaw THEN RawQuery(whereClause) ELSE AggregateQuery(group_by, whereClause)

(***************************************************************************)
(* Modular route: lib/sqlBuilder (columns.ts, builder.ts) and the          *)
(* interpreter that calls it                                                *)
(***************************************************************************)

columnMapping_columns ==
  ("gl identifier" :> "UTM_ID") @@
  ("company" :> "CO_ID") @@
  ("company name" :> "NAME") @@
  ("well code" :> "WELLCODE") @@
  ("accountingid" :> "WELLCODE") @@
  ("cost center" :> "WELLCODE") @@
  ("cost center name" :> "WELL_NAME") @@
  ("well name" :> "WELL_NAME") @@
  ("accounting period" :> "PER_END_DATE") @@
  ("month end" :> "PER_END_DATE") @@
  ("posting date" :> "POSTING_DATE") @@
  ("accounting date" :> "LOS_PRODUCTIONDATE") @@
  ("activity date" :> "LOS_PRODUCTIONDATE") @@
  ("excalibur module" :> "SYSTEM_CODE") @@
  ("journal entry" :> "VOUCHER") @@
  ("vendor" :> "VENDORNAME") @@
  ("vendor name" :> "VENDORNAME") @@
  ("afe" :> "AFE_ID") @@
  ("gas purchaser" :> "PURCH_ID") @@
  ("purchaser" :> "PURCHNAME") @@
  ("purchaser number" :> "PURCH_ID") @@
  ("gl account" :> "ACCT_ID") @@
  ("general ledger account" :> "ACCT_ID") @@
  ("account number" :> "ACCT_ID") @@
  ("account id" :> "ACCT_ID") @@
  ("account code" :> "ACCT_ID") @@
  ("account name" :> "ACCTNAME") @@
  ("volume" :> "QUANTITY") @@
  ("quantity" :> "QUANTITY") @@
  ("mcf" :> "QUANTITY") @@
  ("balance" :> "BALANCE") @@
  ("modified by" :> "LAST_CHANGE_BY") @@
  ("created by" :> "CREATED_BY") @@
  ("invoice type" :> "DESCRIPTION")

\* whether an object (its entries) has the key
HasKey(o, key) == \E i \in 1..Len(o) : o[i].k = key

\* terms as the array safeMapFields walks: nothing when falsy, the array
\* itself, or the single term wrapped
termsArray(terms) ==
  CASE ~Truthy(terms) -> <<>>
    [] terms.kind = "arr" -> terms.a
    [] terms.kind = "str" -> <<terms.s>>
    [] OTHER -> <<>>

\* safeMapFields: lower-cased, trimmed term mapped through the alias table
\* (or kept), pushed only when the catalog includes it
safeMapFields(terms, type, columns) ==
  LET arr == termsArray(terms)
      mappedValue == [i \in 1..Len(arr) |->
                        LET key == trim(toLowerCase(arr[i]))
                        IN  mapOr(columnMapping_columns, key, key)]
      inCatalog(col) == includes(columns, col)
  IN  SelectSeq(mappedValue, inCatalog)

\* the != clauses of one filter entry { key: { exclude: v | [v, ...] } }
excludeClausesOf(key, val, columns) ==
  IF val.kind = "obj" /\ HasKey(val.o, "exclude")
  THEN LET field == mapOr(columnMapping_columns, toLowerCase(key), key)
           lowered == [i \in 1..Len(columns) |-> toLowerCase(columns[i])]
           exclude == Get(val.o, "exclude")
           values == IF exclude.kind = "arr" THEN exclude.a ELSE <<ToStr(exclude)>>
       IN  IF includes(lowered, toLowerCase(field))
           THEN [i \in 1..Len(values) |-> Cmp(field, "!=", values[i])]
           ELSE <<>>
  ELSE <<>>

RECURSIVE extractExcludeEntries(_, _)
extractExcludeEntries(entries, columns) ==
  IF entries = <<>> THEN <<>>
  ELSE excludeClausesOf(Head(entries).k, Head(entries).v, columns)
         \o extractExcludeEntries(Tail(entries), columns)

extractExcludeClauses(filters, columns) ==
  extractExcludeEntries(OrEmptyObj(filters), columns)

RECURSIVE extractKeywordEntries(_)
extractKeywordEntries(entries) ==
  IF entries = <<>> THEN <<>>
  ELSE LET v == Head(entries).v
       IN  (IF toLowerCase(Head(entries).k) = "keyword"
            THEN (CASE v.kind = "arr" -> v.a
                    [] v.kind = "str" -> <<v.s>>
                    [] OTHER -> <<>>)
            ELSE <<>>) \o extractKeywordEntries(Tail(entries))

extractKeywords(filters) == extractKeywordEntries(OrEmptyObj(filters))

\* what interpretQuery of the modular route returns for a parsed classifier
\* output: group_by resolved, filters kept, exclude the != clauses
interpretQuery_modular(parsed, columns) ==
  [data_type |-> parsed.data_type,
   group_by |-> Arr(safeMapFields(parsed.group_by, "group_by", columns)),
   filters |-> parsed.filters,
   mode |-> parsed.mode,
   exclude |-> extractExcludeClauses(parsed.filters, columns)]

\* whereClause of buildSQL: one Like per keyword, then the exclude clauses
whereClause_buildSQL(keywords, excludeClauses) ==
  [i \in 1..Len(keywords) |->
     Like(<<"DESCRIPTION", "VENDORNAME", "ACCTNAME", "ANNOTATION">>, keywords[i])]
    \o excludeClauses

buildSQL(interpretation, columns) ==
  LET inCatalog(col) == includes(columns, col)
      groupBy == SelectSeq(OrEmptyArr(interpretation.group_by), inCatalog)
      keywords == extractKeywords(interpretation.filters)
      excludeClauses == interpretation.exclude
      whereClause == whereClause_buildSQL(keywords, excludeClauses)
  IN  [sqlAgg |-> AggregateQuery(groupBy, whereClause),
       sqlRaw |-> RawQuery(whereClause)]

(***************************************************************************)
(* Keyword revision of the route: buildSnowflakeQuery with sanitizeKeyword *)
(***************************************************************************)

columnMapping_part002 ==
  ("gl identifier" :> "UTM_ID") @@
  ("company" :> "CO_ID") @@
  ("company name" :> "NAME") @@
  ("name" :> "NAME") @@
  ("accountingid" :> "WELLCODE") @@
  ("well code" :> "WELLCODE") @@
  ("cost center" :> "WELLCODE") @@
  ("well name" :> "WELL_NAME") @@
  ("cost center name" :> "WELL_NAME") @@
  ("accounting period" :> "PER_END_DATE") @@
  ("month end" :> "PER_END_DATE") @@
  ("posting date" :> "POSTING_DATE") @@
  ("accounting date" :> "LOS_PRODUCTIONDATE") @@
  ("activity date" :> "LOS_PRODUCTIONDATE") @@
  ("excalibur module" :> "SYSTEM_CODE") @@
  ("journal entry" :> "VOUCHER") @@
  ("vendor" :> "VENDORNAME") @@
  ("afe" :> "AFE_ID") @@
  ("gas purchaser" :> "PURCH_ID") @@
  ("purchaser number" :> "PURCH_ID") @@
  ("purchaser" :> "PURCHNAME") @@
  ("gl account" :> "ACCT_ID") @@
  ("general ledger account" :> "ACCT_ID") @@
  ("account number" :> "ACCT_ID") @@
  ("account id" :> "ACCT_ID") @@
  ("account name" :> "ACCTNAME") @@
  ("account" :> "ACCTNAME") @@
  ("mcf" :> "QUANTITY") @@
  ("volume" :> "QUANTITY") @@
  ("quantity" :> "QUANTITY") @@
  ("balance" :> "BALANCE") @@
  ("modified by" :> "LAST_CHANGE_BY") @@
  ("created by" :> "CREATED_BY")

\* keyword.split(/\s+/).map(trim).filter(Boolean)
sanitizeKeyword(keyword) ==
  LET pieces == splitBlanks(keyword, "", FALSE)
      trimmed == [i \in 1..Len(pieces) |-> trim(pieces[i])]
      nonEmpty(term) == term # ""
  IN  SelectSeq(trimmed, nonEmpty)

\* the filter entries other than "exclude"
namedEntries(filters) ==
  LET notExclude(e) == e.k # "exclude"
  IN  SelectSeq(filters, notExclude)

\* conditions of the keyword revision: the OR of the keyword terms' Likes,
\* an equality per resolved filter, an inequality per resolved exclude
conditions_part002(filters, resolvedFilters, excludeFilters) ==
  (IF Truthy(Get(filters, "keyword"))
   THEN LET terms == sanitizeKeyword(Get(filters, "keyword").s)
        IN  <<AnyOf([i \in 1..Len(terms) |->
                 Like(<<"ACCTNAME", "DESCRIPTION", "ANNOTATION">>, terms[i])])>>
   ELSE <<>>)
  \o [i \in 1..Len(resolvedFilters) |->
        Cmp(resolvedFilters[i].k, "=", ToStr(resolvedFilters[i].v))]
  \o [i \in 1..Len(excludeFilters) |->
        Cmp(excludeFilters[i].k, "!=", ToStr(excludeFilters[i].v))]

buildSnowflakeQuery_part002(interpretation, tableColumns, isRaw) ==
  LET group_by == resolveGroupBy(columnMapping_part002, interpretation, tableColumns)
      filters == OrEmptyObj(interpretation.filters)
      excludeFilters == resolveFilters(columnMapping_part002,
                          OrEmptyObj(Get(filters, "exclude")), tableColumns, <<>>)
      resolvedFilters == resolveFilters(columnMapping_part002,
                           namedEntries(filters), tableColumns, <<>>)
  IN  IF Truthy(Get(filters, "keyword")) /\ Get(filters, "keyword").kind # "str"
      THEN QueryThrew
      ELSE LET conditions == conditions_part002(filters, resolvedFilters, excludeFilters)
           IN  IF isRaw THEN RawQuery(conditions)
               ELSE AggregateQuery(group_by, conditions)

(***************************************************************************)
(* Supabase revision: extractKeywords, extractExcludeClauses,              *)
(* safeMapFields, interpretQuery and the mode-driven buildSnowflakeQuery   *)
(***************************************************************************)

columnMapping_part003 ==
  ("gl identifier" :> "UTM_ID") @@
  ("company" :> "CO_ID") @@
  ("company name" :> "NAME") @@
  ("well code" :> "WELLCODE") @@
  ("accountingid" :> "WELLCODE") @@
  ("cost center" :> "WELLCODE") @@
  ("cost center name" :> "WELL_NAME") @@
  ("well name" :> "WELL_NAME") @@
  ("accounting period" :> "PER_END_DATE") @@
  ("month end" :> "PER_END_DATE") @@
  ("posting date" :> "POSTING_DATE") @@
  ("accounting date" :> "LOS_PRODUCTIONDATE") @@
  ("activity date" :> "LOS_PRODUCTIONDATE") @@
  ("excalibur module" :> "SYSTEM_CODE") @@
  ("journal entry" :> "VOUCHER") @@
  ("vendor" :> "VENDORNAME") @@
  ("vendor name" :> "VENDORNAME") @@
  ("afe" :> "AFE_ID") @@
  ("gas purchaser" :> "PURCH_ID") @@
  ("purchaser" :> "PURCHNAME") @@
  ("purchaser number" :> "PURCH_ID") @@
  ("gl account" :> "ACCT_ID") @@
  ("general ledger account" :> "ACCT_ID") @@
  ("account number" :> "ACCT_ID") @@
  ("account id" :> "ACCT_ID") @@
  ("accounting id" :> "ACCT_ID") @@
  ("account code" :> "ACCT_ID") @@
  ("account name" :> "ACCTNAME") @@
  ("volume" :> "QUANTITY") @@
  ("quantity" :> "QUANTITY") @@
  ("mcf" :> "QUANTITY") @@
  ("balance" :> "BALANCE") @@
  ("modified by" :> "LAST_CHANGE_BY") @@
  ("created by" :> "CREATED_BY") @@
  ("invoice type" :> "DESCRIPTION")

\* filters.keyword as a list: the array itself, or the single value wrapped
extractKeywords_part003(filters) ==
  LET keyword == Get(OrEmptyObj(filters), "keyword")
  IN  IF Truthy(keyword)
      THEN (IF keyword.kind = "arr" THEN keyword.a ELSE <<ToStr(keyword)>>)
      ELSE <<>>

\* the != clauses of one field and its excluded value(s), when the catalog
\* holds the field up to letter case
excludeField_part003(key, excluded, columns) ==
  LET field == mapOr(columnMapping_part003, toLowerCase(key), key)
      lowered == [i \in 1..Len(columns) |-> toLowerCase(columns[i])]
      values == IF excluded.kind = "arr" THEN excluded.a ELSE <<ToStr(excluded)>>
  IN  IF includes(lowered, toLowerCase(field))
      THEN [i \in 1..Len(values) |-> Cmp(field, "!=", values[i])]
      ELSE <<>>

\* the entries of an exclude sub-object, one field each
RECURSIVE excludeSubEntries_part003(_, _)
excludeSubEntries_part003(entries, columns) ==
  IF entries = <<>> THEN <<>>
  ELSE excludeField_part003(Head(entries).k, Head(entries).v, columns)
         \o excludeSubEntries_part003(Tail(entries), columns)

RECURSIVE extractExcludeEntries_part003(_, _)
extractExcludeEntries_part003(entries, columns) ==
  IF entries = <<>> THEN <<>>
  ELSE LET key == Head(entries).k
           val == Head(entries).v
       IN  (IF val.kind = "obj" /\ HasKey(val.o, "exclude")
            THEN excludeField_part003(key, Get(val.o, "exclude"), columns)
            ELSE IF val.kind = "obj" /\ key = "exclude"
            THEN excludeSubEntries_part003(val.o, columns)
            ELSE <<>>)
             \o extractExcludeEntries_part003(Tail(entries), columns)

extractExcludeClauses_part003(filters, columns) ==
  extractExcludeEntries_part003(OrEmptyObj(filters), columns)

\* safeMapFields: every term lower-cased, trimmed and mapped (or kept); a
\* term the catalog lacks is logged and returned all the same
safeMapFields_part003(terms, type, columns) ==
  [i \in 1..Len(terms) |->
     LET key == trim(toLowerCase(terms[i]))
     IN  mapOr(columnMapping_part003, key, key)]

\* what interpretQuery returns; terms.map throws when group_by is no array
interpretQuery_part003(parsed, columns) ==
  IF parsed.group_by.kind # "arr" THEN QueryThrew
  ELSE [kind |-> "intent",
        data_type |-> parsed.data_type,
        group_by |-> safeMapFields_part003(parsed.group_by.a, "group_by", columns),
        filters |-> parsed.filters,
        mode |-> parsed.mode,
        exclude |-> extractExcludeClauses_part003(parsed.filters, columns)]

\* the one query of the revision: the aggregate in summary mode, whose
\* SELECT list and ORDER BY are written whatever group_by holds; SELECT *
\* in any other mode
buildSnowflakeQuery_part003(interpretation, columns) ==
  LET group_by == interpretation.group_by
      keywords == extractKeywords_part003(interpretation.filters)
      whereClauses ==
        [i \in 1..Len(keywords) |->
           Like(<<"DESCRIPTION", "VENDORNAME", "ACCTNAME", "ANNOTATION">>, keywords[i])]
          \o interpretation.exclude
  IN  IF interpretation.mode = Str("summary")
      THEN [AggregateQuery(group_by, whereClauses) EXCEPT
              !.text = [select |-> join(group_by, ", ") \o ", SUM(BALANCE) AS TOTAL",
                        groupBy |-> IF Len(group_by) > 0
                                    THEN "GROUP BY " \o join(group_by, ", ") ELSE "",
                        orderBy |-> "ORDER BY " \o join(group_by, ", ")]]
      ELSE RawQuery(whereClauses)

(***************************************************************************)
(* Date revision: unnamed/part_004                                         *)
(***************************************************************************)

\* the alias table of the date revision
columnMapping_part004 ==
  ("gl identifier" :> "UTM_ID") @@
  ("company" :> "CO_ID") @@
  ("company name" :> "NAME") @@
  ("well code" :> "WELLCODE") @@
  ("accountingid" :> "WELLCODE") @@
  ("cost center" :> "WELLCODE") @@
  ("cost center name" :> "WELL_NAME") @@
  ("well name" :> "WELL_NAME") @@
  ("accounting period" :> "PER_END_DATE") @@
  ("month end" :> "PER_END_DATE") @@
  ("posting date" :> "POSTING_DATE") @@
  ("accounting date" :> "LOS_PRODUCTIONDATE") @@
  ("activity date" :> "LOS_PRODUCTIONDATE") @@
  ("excalibur module" :> "SYSTEM_CODE") @@
  ("journal entry" :> "VOUCHER") @@
  ("vendor" :> "VENDORNAME") @@
  ("vendor name" :> "VENDORNAME") @@
  ("afe" :> "AFE_ID") @@
  ("gas purchaser" :> "PURCH_ID") @@
  ("purchaser" :> "PURCHNAME") @@
  ("purchaser number" :> "PURCH_ID") @@
  ("gl account" :> "ACCT_ID") @@
  ("general ledger account" :> "ACCT_ID") @@
  ("account number" :> "ACCT_ID") @@
  ("account id" :> "ACCT_ID") @@
  ("account code" :> "ACCT_ID") @@
  ("account name" :> "ACCTNAME") @@
  ("volume" :> "QUANTITY") @@
  ("quantity" :> "QUANTITY") @@
  ("mcf" :> "QUANTITY") @@
  ("balance" :> "BALANCE") @@
  ("modified by" :> "LAST_CHANGE_BY") @@
  ("created by" :> "CREATED_BY") @@
  ("invoice type" :> "DESCRIPTION")

\* safeMapFields of the date revision: as in columns.ts, over its own table
safeMapFields_part004(terms, type, columns) ==
  LET arr == termsArray(terms)
      mappedValue == [i \in 1..Len(arr) |->
                        LET key == trim(toLowerCase(arr[i]))
                        IN  mapOr(columnMapping_part004, key, key)]
      inCatalog(col) == includes(columns, col)
  IN  SelectSeq(mappedValue, inCatalog)

\* interpretQuery after JSON.parse: the keyword fallback is assigned into the
\* parsed object itself, then a new object is returned.  parsed is the
\* parsed object as the function leaves it, returned is its return value.
interpretQuery_part004(parsed0, queryText, columns) ==
  LET needsKeyword ==
        /\ ~Truthy(Get(OrEmptyObj(parsed0.filters), "keyword"))
        /\ strIncludes(toLowerCase(queryText), "electric")
      filters == IF needsKeyword
                 THEN Obj(Put(OrEmptyObj(parsed0.filters), "keyword", Str("electric")))
                 ELSE parsed0.filters
      parsed == [parsed0 EXCEPT !.filters = filters]
      rawExclude == Get(OrEmptyObj(filters), "exclude")
      excludeNormalized ==
        IF ~Truthy(rawExclude) \/ rawExclude.kind # "obj" THEN <<>>
        ELSE IF Truthy(Get(rawExclude.o, "field")) /\ Truthy(Get(rawExclude.o, "value"))
        THEN <<[k |-> ToStr(Get(rawExclude.o, "field")), v |-> Get(rawExclude.o, "value")]>>
        ELSE rawExclude.o
  IN  [parsed |-> parsed,
       returned |->
         [kind |-> "intent",
          data_type |-> parsed.data_type,
          mode |-> parsed.mode,
          group_by |-> safeMapFields_part004(parsed.group_by, "group_by", columns),
          filters |-> Obj(Put(OrEmptyObj(filters), "exclude", Obj(excludeNormalized))),
          exclude |-> safeMapFields_part004(Obj(excludeNormalized), "exclude", columns)]]

(***************************************************************************)
(* The data store behind connection.execute: table S3_GL as the sequence of *)
(* its columns (the catalog) and of its rows, and the result of a query.    *)
(* Unquoted identifiers resolve ignoring letter case; a query that names a  *)
(* column the table lacks, or holds an empty parenthesis, fails to compile. *)
(***************************************************************************)

\* the table's columns an identifier resolves to (at most one)
columnsNamed(table, ident) ==
  {c \in Range(table.columns) : toLowerCase(c) = toLowerCase(ident)}

columnOf(table, ident) == CHOOSE c \in columnsNamed(table, ident) : TRUE

\* the identifiers a predicate names
RECURSIVE clauseIdents(_)
clauseIdents(clause) ==
  CASE clause.kind \in {"like", "likeExact"} -> Range(clause.columns)
    [] clause.kind = "cmp" -> {clause.field}
    [] clause.kind = "or" ->
         UNION {clauseIdents(clause.clauses[i]) : i \in 1..Len(clause.clauses)}
    [] OTHER -> {}

\* every identifier a query names, the amount column of SUM(BALANCE) included
queryIdents(q) ==
  Range(q.selectFields) \cup Range(q.groupByClause) \cup Range(q.orderByClause)
    \cup (IF q.total = <<>> THEN {} ELSE {q.total[2]})
    \cup UNION {clauseIdents(q.where[i]) : i \in 1..Len(q.where)}

\* text ILIKE '%term%'
ilike(value, term) ==
  value.kind = "str" /\ strIncludes(toLowerCase(value.s), toLowerCase(term))

RECURSIVE clauseCompiles(_)
clauseCompiles(clause) ==
  CASE clause.kind = "cmp" -> clause.op \in {"=", "!="}
    [] clause.kind = "or" ->
         /\ clause.clauses # <<>>
         /\ \A i \in 1..Len(clause.clauses) : clauseCompiles(clause.clauses[i])
    [] OTHER -> TRUE

compiles(table, q) ==
  /\ \A ident \in queryIdents(q) : columnsNamed(table, ident) # {}
  /\ \A i \in 1..Len(q.where) : clauseCompiles(q.where[i])

\* whether a row satisfies a predicate
RECURSIVE satisfies(_, _, _)
satisfies(table, row, clause) ==
  CASE clause.kind = "like" ->
         \E i \in 1..Len(clause.columns) :
           ilike(row[columnOf(table, clause.columns[i])], clause.term)
    [] clause.kind = "likeExact" ->
         \E i \in 1..Len(clause.columns) :
           LET value == row[columnOf(table, clause.columns[i])]
           IN  value.kind = "str" /\ strIncludes(value.s, clause.term)
    [] clause.kind = "cmp" ->
         LET value == row[columnOf(table, clause.field)]
         IN  /\ value.kind = "str"
             /\ IF clause.op = "=" THEN value.s = clause.value
                ELSE value.s # clause.value
    [] clause.kind = "or" ->
         \E i \in 1..Len(clause.clauses) : satisfies(table, row, clause.clauses[i])
    [] OTHER -> FALSE

\* the rows of the table the WHERE clause keeps, in table order
matching(table, q) ==
  LET keep(row) == \A i \in 1..Len(q.where) : satisfies(table, row, q.where[i])
  IN  SelectSeq(table.rows, keep)

\* the first n elements
take(seq, n) == SubSeq(seq, 1, IF Len(seq) < n THEN Len(seq) ELSE n)

\* a row of SELECT *: every column in table order
starRow(table, row) ==
  [i \in 1..Len(table.columns) |-> [k |-> table.columns[i], v |-> row[table.columns[i]]]]

\* the values of the grouping columns of a row
groupKey(table, q, row) ==
  [i \in 1..Len(q.groupByClause) |-> row[columnOf(table, q.groupByClause[i])]]

RECURSIVE sumBalance(_)
sumBalance(rows) ==
  IF rows = <<>> THEN 0
  ELSE (IF Head(rows)["BALANCE"].kind = "num" THEN Head(rows)["BALANCE"].n ELSE 0)
         + sumBalance(Tail(rows))

\* the distinct group keys in the order of their first row
RECURSIVE groupKeys(_, _, _, _)
groupKeys(table, q, rows, seen) ==
  IF rows = <<>> THEN seen
  ELSE LET key == groupKey(table, q, Head(rows))
       IN  groupKeys(table, q, Tail(rows),
             IF \E i \in 1..Len(seen) : seen[i] = key THEN seen ELSE Append(seen, key))

\* one result row of the aggregate query: the group's columns, then TOTAL
groupRow(table, q, rows, key) ==
  LET inGroup(row) == groupKey(table, q, row) = key
      members == SelectSeq(rows, inGroup)
  IN  [i \in 1..Len(key) |->
         [k |-> columnOf(table, q.selectFields[i]), v |-> key[i]]]
        \o <<[k |-> "TOTAL", v |-> Num(sumBalance(members))]>>

\* the rows connection.execute hands to complete() for a query that compiles;
\* groups come in the order of their first row (the sort of ORDER BY is left
\* to the table's row order)
resultRows(table, q) ==
  LET rows == matching(table, q)
  IN  IF q.isRaw
      THEN take([i \in 1..Len(rows) |-> starRow(table, rows[i])], q.limit)
      ELSE IF q.groupByClause = <<>>
      THEN <<<<[k |-> "TOTAL",
                v |-> IF rows = <<>> THEN Null ELSE Num(sumBalance(rows))]>>>>
      ELSE LET keys == groupKeys(table, q, rows, <<>>)
           IN  take([i \in 1..Len(keys) |-> groupRow(table, q, rows, keys[i])], q.limit)

(***************************************************************************)
(* Text the fusion route builds from rows and matches                      *)
(***************************************************************************)

\* v ?? fallback, interpolated
orElse(v, fallback) == IF v.kind \in {"null", "undefined"} THEN fallback ELSE ToStr(v)

formatResultsAsTable(rows) ==
  IF rows = <<>> THEN "No results found."
  ELSE LET headers == [i \in 1..Len(rows[1]) |-> rows[1][i].k]
           headerRow == "| " \o join(headers, " | ") \o " |"
           separatorRow == "| " \o join([i \in 1..Len(headers) |-> "---"], " | ") \o " |"
           dataRows == [r \in 1..Len(rows) |->
                          "| " \o join([i \in 1..Len(headers) |->
                                          orElse(Get(rows[r], headers[i]), "")], " | ")
                               \o " |"]
       IN  join(<<headerRow, separatorRow>> \o dataRows, "\n")

\* Object.entries(o).map(([k, v]) => `${k}: ${v ?? "n/a"}`).join("\n")
entryLines(o) ==
  join([i \in 1..Len(o) |-> o[i].k \o ": " \o orElse(o[i].v, "n/a")], "\n")

\* pineconeData: one block per match, in the order the index returned them
pineconeBlocks(matches) ==
  [i \in 1..Len(matches) |->
     "Pinecone Raw Result " \o ToString(i) \o ":\n"
       \o entryLines(OrEmptyObj(matches[i].metadata))]

\* rawData: one block per raw row, in the order the store returned them
snowflakeBlocks(rows) ==
  [i \in 1..Len(rows) |->
     "Snowflake Raw Result " \o ToString(i) \o ":\n" \o entryLines(rows[i])]

\* what fusionSmartRetrieval returns in summary mode
summaryResult(aggResults) ==
  [combinedTextForSummary |-> formatResultsAsTable(aggResults),
   rawDataText |-> formatResultsAsTable(aggResults),
   sourceNote |-> ""]

\* what fusionSmartRetrieval returns in search mode
\* the raw rows put before the snippets
searchResult_RawFirst(aggResults, pineconeData, rawResults) ==
  [combinedTextForSummary |->
     join(<<formatResultsAsTable(aggResults)>> \o pineconeData, "\n\n"),
   rawDataText |-> join(snowflakeBlocks(rawResults) \o pineconeData, "\n\n"),
   sourceNote |-> IF Len(aggResults) # 0 THEN ""
                  ELSE "Note: results based on semantic search only."]

\* the note decided on the raw rows instead of the aggregate rows
searchResult_NoteByRawRows(aggResults, pineconeData, rawResults) ==
  [combinedTextForSummary |->
     join(<<formatResultsAsTable(aggResults)>> \o pineconeData, "\n\n"),
   rawDataText |-> join(pineconeData \o snowflakeBlocks(rawResults), "\n\n"),
   sourceNote |-> IF Len(rawResults) # 0 THEN ""
                  ELSE "Note: results based on semantic search only."]

searchResult(aggResults, pineconeData, rawResults) ==
  [combinedTextForSummary |->
     join(<<formatResultsAsTable(aggResults)>> \o pineconeData, "\n\n"),
   rawDataText |-> join(pineconeData \o snowflakeBlocks(rawResults), "\n\n"),
   sourceNote |-> IF Len(aggResults) # 0 THEN ""
                  ELSE "Note: results based on semantic search only."]

\* interpretation.mode === "summary"
\* the mode compared with a capitalised literal
isSummary_Capitalised(intent) == intent.mode = Str("Summary")

isSummary(intent) == intent.mode = Str("summary")

\* the text embedded for the semantic search
pineconeQueryOf(intent, query) ==
  (IF Truthy(intent.data_type) THEN ToStr(intent.data_type) ELSE "financial")
    \o " " \o query

(***************************************************************************)
(* The result formatters of the route revisions.  Rows hold strings,       *)
(* numbers, null and undefined.                                            *)
(***************************************************************************)

\* an element as Array.prototype.join writes it: null and undefined as "",
\* anything else as String(element)
joinElement(v) == IF v.kind \in {"null", "undefined"} THEN "" ELSE ToStr(v)

\* formatResultsAsTable of the keyword revision: the cells are the values
\* themselves, joined
formatResultsAsTable_part002(rows) ==
  IF rows = <<>> THEN "No results found."
  ELSE LET headers == [i \in 1..Len(rows[1]) |-> rows[1][i].k]
           headerRow == "| " \o join(headers, " | ") \o " |"
           separatorRow == "| " \o join([i \in 1..Len(headers) |-> "---"], " | ") \o " |"
           dataRows == [r \in 1..Len(rows) |->
                          "| " \o join([i \in 1..Len(headers) |->
                                          joinElement(Get(rows[r], headers[i]))], " | ")
                               \o " |"]
       IN  join(<<headerRow, separatorRow>> \o dataRows, "\n")

\* month/day/year of the local date of new Date(text), for the texts the
\* rows hold: at or east of UTC, and west of it
ParsedDates ==
  "2024-03-31" :> [east |-> "3/31/2024", west |-> "3/30/2024"]

\* month/day/year of the local date of new Date(null) and of new Date(n)
\* for a few milliseconds n: the epoch
EpochDate == [east |-> "1/1/1970", west |-> "12/31/1969"]

\* formatDate: the value itself when new Date(value) is invalid, else the
\* local month/day/year; zone is the side of UTC the server's clock is on
formatDate(value, zone) ==
  CASE value.kind = "null" -> Str(EpochDate[zone])
    [] value.kind = "num" -> Str(EpochDate[zone])
    [] value.kind = "str" /\ value.s \in DOMAIN ParsedDates -> Str(ParsedDates[value.s][zone])
    [] OTHER -> value

\* formatResultsAsTable of the date revision: formatDate for every column
\* whose name contains "date", val ?? "" for the others
formatResultsAsTable_part004(rows, zone) ==
  IF rows = <<>> THEN "No results found."
  ELSE LET headers == [i \in 1..Len(rows[1]) |-> rows[1][i].k]
           headerRow == "| " \o join(headers, " | ") \o " |"
           separatorRow == "| " \o join([i \in 1..Len(headers) |-> "---"], " | ") \o " |"
           cell(row, key) ==
             LET val == Get(row, key)
             IN  IF strIncludes(toLowerCase(key), "date")
                 THEN joinElement(formatDate(val, zone))
                 ELSE orElse(val, "")
           dataRows == [r \in 1..Len(rows) |->
                          "| " \o join([i \in 1..Len(headers) |-> cell(rows[r], headers[i])],
                                       " | ")
                               \o " |"]
       IN  join(<<headerRow, separatorRow>> \o dataRows, "\n")

(***************************************************************************)
(* State                                                                   *)
(***************************************************************************)

VARIABLES
  route,          \* which POST handler serves the request
  query,          \* the query field of the request body
  table,          \* table S3_GL of the data store
  pc,             \* where the handler, or the builder run, stands
  failure,        \* the error thrown inside try, if any
  response,       \* the response the handler returns
  connection,     \* the connection object: none, created, connected, destroyed
  connectionSet,  \* whether the handler's connection variable is assigned
  destroyCalls,   \* how often destroy was called
  disconnectError, \* the error handed to the destroy callback, "" if none
  statements,     \* the statements issued on the connection and their state
  calls,          \* the outbound calls issued, in order
  interpretation, \* the parsed classifier output
  tableColumns,   \* the catalog fetched from the store
  sql,            \* the queries built for the request
  aggResults,     \* rows of the aggregate query
  rawResults,     \* rows of the raw query
  pineconeQuery,  \* the text embedded for the semantic search
  matches,        \* the matches the index returned
  pineconeData,   \* the snippets built from the matches
  fused,          \* what fusionSmartRetrieval returned
  prompt,         \* what was handed to the summarizer
  built,          \* builder run: the queries of every builder
  results,        \* builder run: the raw rows the store returns for built
  narrower,       \* builder run: results before the last keyword was added
  page            \* the form page's state: summary, rawData, loading, error

inputVars == <<route, query, table, page>>

connVars == <<connection, connectionSet, destroyCalls, disconnectError, statements>>

dataVars == <<interpretation, tableColumns, sql, aggResults, rawResults,
              pineconeQuery, matches, pineconeData, fused, prompt>>

builderVars == <<built, results, narrower>>

\* the request's variables a builder run leaves alone
requestVars == <<route, query, page, failure, response, connVars, calls, sql, aggResults,
                 rawResults, pineconeQuery, matches, pineconeData, fused, prompt>>

vars == <<inputVars, pc, failure, response, connVars, calls, dataVars, builderVars>>

(***************************************************************************)
(* Inputs                                                                  *)
(***************************************************************************)

\* the longest group_by drawn
MaxGroupBy == 2

\* the most keywords one intent carries
MaxKeywords == 2

\* the most rows a drawn table holds
MaxRows == 2

\* every sequence over S of length at most n
SeqsUpTo(S, n) == UNION {[1..k -> S] : k \in 0..n}

Entry(k, v) == [k |-> k, v |-> v]

GroupByTerms == {"vendor", " Vendor ", "VENDORNAME", "VendorName", "cost center", "bogus"}

Keywords == {"electric", "pump", "bill"}

\* filters without a keyword: none, named, two named, unresolvable, named in
\* another case and with blanks around, operator pair, exclude under the field (three spellings), exclude sub-mapping
PlainFilters ==
  {<<>>,
   <<Entry("vendor", Str("Exxon"))>>,
   <<Entry("vendor", Str("Exxon")), Entry("cost center", Str("W1"))>>,
   <<Entry("bogus", Str("x"))>>,
   <<Entry(" Vendor ", Str("Exxon"))>>,
   <<Entry("vendor", Arr(<<"!=", "Exxon">>))>>,
   <<Entry("vendor", Obj(<<Entry("exclude", Str("Exxon"))>>))>>,
   <<Entry("VendorName", Obj(<<Entry("exclude", Arr(<<"Exxon", "Shell">>))>>))>>,
   <<Entry("bogus", Obj(<<Entry("exclude", Str("x"))>>))>>,
   <<Entry("exclude", Obj(<<Entry("vendor", Str("Exxon"))>>))>>,
   <<Entry("exclude", Obj(<<Entry("bogus", Str("x"))>>)),
     Entry("vendor", Str("Shell"))>>}

KeywordValues == {Str("electric"), Str("electricity"), Arr(<<"electric", "pump">>)}

FilterPool ==
  {Undefined} \cup {Obj(f) : f \in PlainFilters}
    \cup {Obj(<<Entry("keyword", kw)>> \o f) : kw \in KeywordValues, f \in PlainFilters}

\* the catalogs drawn: the full one, one without the vendor and cost-center
\* columns, an empty one
Catalogs ==
  {<<"VENDORNAME", "WELLCODE", "ACCTNAME", "DESCRIPTION", "ANNOTATION", "BALANCE">>,
   <<"ACCTNAME", "DESCRIPTION", "ANNOTATION", "BALANCE">>,
   <<>>}

BuilderIntents ==
  {[data_type |-> d, group_by |-> g, filters |-> f, mode |-> m] :
     d \in {Undefined, Str("balances"), Str("expenses")},
     g \in {Undefined} \cup {Arr(s) : s \in SeqsUpTo(GroupByTerms, MaxGroupBy)},
     f \in FilterPool,
     m \in {Undefined, Str("summary")}}

NotBuilt == [kind |-> "none"]

\* the page's state before anything was submitted: the useState defaults
PageIdle == [summary |-> "", rawData |-> "", loading |-> FALSE, error |-> ""]

(***************************************************************************)
(* Builder run: every query builder applied to one intent and catalog      *)
(***************************************************************************)

BuilderIdle == built = NotBuilt /\ results = NotBuilt /\ narrower = NotBuilt

NoFailure == [site |-> "none", error |-> ""]

NoResponse == [status |-> 0, body |-> <<>>]

NoStatements == [agg |-> "idle", raw |-> "idle"]

NoQueries == [agg |-> NotBuilt, raw |-> NotBuilt]

\* no request is being served
RequestIdle ==
  /\ route = "none" /\ query = Undefined /\ page = PageIdle
  /\ failure = NoFailure /\ response = NoResponse
  /\ connection = "none" /\ connectionSet = FALSE /\ destroyCalls = 0 /\ disconnectError = ""
  /\ statements = NoStatements /\ calls = <<>>
  /\ sql = NoQueries /\ aggResults = <<>> /\ rawResults = <<>>
  /\ pineconeQuery = "" /\ matches = <<>> /\ pineconeData = <<>>
  /\ fused = NotBuilt /\ prompt = NotBuilt

InitBuilder ==
  /\ pc = "parsed"
  /\ interpretation \in BuilderIntents
  /\ tableColumns \in Catalogs
  /\ table = [columns |-> tableColumns, rows |-> <<>>]
  /\ BuilderIdle
  /\ RequestIdle

\* the fusion route's two calls of buildSnowflakeQuery
BuildFusion ==
  /\ pc = "parsed"
  /\ built' = [kind |-> "built",
               fusionAgg |-> buildSnowflakeQuery(interpretation, tableColumns, FALSE),
               fusionRaw |-> buildSnowflakeQuery(interpretation, tableColumns, TRUE)]
  /\ pc' = "fusion"
  /\ UNCHANGED <<interpretation, table, tableColumns, results, narrower, requestVars>>

\* the modular route: interpretQuery's resolution, then buildSQL
BuildModular ==
  /\ pc = "fusion"
  /\ LET modularSQL == buildSQL(interpretQuery_modular(interpretation, tableColumns), tableColumns)
     IN  built' = [kind |-> "built",
                   fusionAgg |-> built.fusionAgg, fusionRaw |-> built.fusionRaw,
                   sqlAgg |-> modularSQL.sqlAgg, sqlRaw |-> modularSQL.sqlRaw]
  /\ pc' = "modular"
  /\ UNCHANGED <<interpretation, table, tableColumns, results, narrower, requestVars>>

\* the keyword revision's buildSnowflakeQuery
BuildKeywordRevision ==
  /\ pc = "modular"
  /\ built' = [kind |-> "built",
               fusionAgg |-> built.fusionAgg, fusionRaw |-> built.fusionRaw,
               sqlAgg |-> built.sqlAgg, sqlRaw |-> built.sqlRaw,
               revAgg |-> buildSnowflakeQuery_part002(interpretation, tableColumns, FALSE),
               revRaw |-> buildSnowflakeQuery_part002(interpretation, tableColumns, TRUE)]
  /\ pc' = "built"
  /\ UNCHANGED <<interpretation, table, tableColumns, results, narrower, requestVars>>

\* the Supabase revision: interpretQuery's resolution, then its one query
BuildSupabaseRevision ==
  /\ pc = "built"
  /\ LET interpreted == interpretQuery_part003(interpretation, tableColumns)
     IN  built' = [supaQuery |->
                     IF interpreted.kind = "throw" THEN QueryThrew
                     ELSE buildSnowflakeQuery_part003(interpreted, tableColumns)]
                  @@ built
  /\ pc' = "supabase"
  /\ UNCHANGED <<interpretation, table, tableColumns, results, narrower, requestVars>>

\* the date revision's interpretQuery on the parsed classifier output
BuildDateRevision ==
  /\ pc = "supabase"
  /\ \E queryText \in {"electric bills by vendor", "rent by vendor"} :
       LET interpreted == interpretQuery_part004(interpretation, queryText, tableColumns)
       IN  built' = [dateParsed |-> interpreted.parsed,
                     dateIntent |-> interpreted.returned] @@ built
  /\ pc' = "date"
  /\ UNCHANGED <<interpretation, table, tableColumns, results, narrower, requestVars>>

\* the modular interpretQuery on intents that name each group_by term of the
\* parsed intent twice: as the group_by field and as an exclude field
InterpretTermBothWays ==
  /\ pc = "date"
  /\ LET terms == OrEmptyArr(interpretation.group_by)
         twice(term) ==
           [data_type |-> Undefined, mode |-> Undefined,
            group_by |-> Arr(<<term>>),
            filters |-> Obj(<<Entry(term, Obj(<<Entry("exclude", Str("x"))>>))>>)]
     IN  built' = [bothWays |-> [i \in 1..Len(terms) |->
                                  interpretQuery_modular(twice(terms[i]), tableColumns)]]
                  @@ built
  /\ pc' = "both ways"
  /\ UNCHANGED <<interpretation, table, tableColumns, results, narrower, requestVars>>

NextBuilder ==
  \/ BuildFusion \/ BuildModular \/ BuildKeywordRevision
  \/ BuildSupabaseRevision \/ BuildDateRevision \/ InterpretTermBothWays

SpecBuilder == InitBuilder /\ [][NextBuilder]_vars

(***************************************************************************)
(* Keyword run: the builders' raw queries executed on a table, then a      *)
(* keyword added to the intent and the run repeated                        *)
(***************************************************************************)

FullCatalog ==
  <<"VENDORNAME", "WELLCODE", "ACCTNAME", "DESCRIPTION", "ANNOTATION", "BALANCE">>

Row(vendor, well, acct, description, annotation, balance) ==
  [VENDORNAME |-> Str(vendor), WELLCODE |-> Str(well), ACCTNAME |-> Str(acct),
   DESCRIPTION |-> Str(description), ANNOTATION |-> Str(annotation),
   BALANCE |-> Num(balance)]

RowPool ==
  {Row("Exxon", "W1", "Utilities", "Electric bill", "", 5),
   Row("Shell", "W2", "Equipment", "pump repair", "", 7),
   Row("Exxon", "W1", "Equipment", "electric pump", "bill pending", 3),
   Row("Acme", "W2", "Rent", "office", "", 2)}

KeywordTables ==
  {[columns |-> FullCatalog, rows |-> r] : r \in SeqsUpTo(RowPool, MaxRows)}

NoKeywordIntent ==
  [data_type |-> Undefined, group_by |-> Undefined, filters |-> Obj(<<>>), mode |-> Undefined]

InitKeyword ==
  /\ pc = "parsed"
  /\ interpretation = NoKeywordIntent
  /\ table \in KeywordTables
  /\ tableColumns = table.columns
  /\ BuilderIdle
  /\ RequestIdle

\* what connection.execute reports for a built query
execute(q) ==
  IF q.kind = "query" /\ compiles(table, q)
  THEN [ok |-> TRUE, rows |-> resultRows(table, q)]
  ELSE [ok |-> FALSE, rows |-> <<>>]

\* the three raw queries run against the table
Execute ==
  /\ pc = "built"
  /\ results' = [kind |-> "rows", fusion |-> execute(built.fusionRaw),
                 sql |-> execute(built.sqlRaw), rev |-> execute(built.revRaw)]
  /\ pc' = "executed"
  /\ UNCHANGED <<interpretation, table, tableColumns, built, narrower, requestVars>>

\* the keywords an intent carries: the words of a string, the elements of an array
keywordsOf(intent) ==
  LET kw == Get(OrEmptyObj(intent.filters), "keyword")
  IN  CASE kw.kind = "str" -> sanitizeKeyword(kw.s)
        [] kw.kind = "arr" -> kw.a
        [] OTHER -> <<>>

\* the keyword value with k added in front or at the end, in the same form
withKeyword(kw, k, atFront, asArray) ==
  CASE kw.kind = "str" -> Str(IF atFront THEN k \o " " \o kw.s ELSE kw.s \o " " \o k)
    [] kw.kind = "arr" -> Arr(IF atFront THEN <<k>> \o kw.a ELSE kw.a \o <<k>>)
    [] OTHER -> IF asArray THEN Arr(<<k>>) ELSE Str(k)

\* the classifier output with one more keyword, run through the builders again
AddKeyword ==
  /\ pc = "executed"
  /\ Len(keywordsOf(interpretation)) < MaxKeywords
  /\ \E k \in Keywords \ Range(keywordsOf(interpretation)), atFront, asArray \in BOOLEAN :
       interpretation' =
         [interpretation EXCEPT !.filters =
            Obj(Put(interpretation.filters.o, "keyword",
                    withKeyword(Get(interpretation.filters.o, "keyword"),
                                k, atFront, asArray)))]
  /\ narrower' = results
  /\ built' = NotBuilt
  /\ results' = NotBuilt
  /\ pc' = "parsed"
  /\ UNCHANGED <<table, tableColumns, requestVars>>

NextKeyword == NextBuilder \/ Execute \/ AddKeyword

SpecKeyword == InitKeyword /\ [][NextKeyword]_vars

(***************************************************************************)
(* Formatter run: every result formatter applied to one row set            *)
(***************************************************************************)

\* the most rows a formatted row set holds
MaxFormatRows == 2

\* rows as the store returns them, rows with null and undefined values,
\* rows with other keys than the first, a value spanning two lines
FormatRowPool ==
  {<<Entry("VENDORNAME", Str("Exxon")), Entry("POSTING_DATE", Str("2024-03-31")),
     Entry("TOTAL", Num(5))>>,
   <<Entry("VENDORNAME", Null), Entry("POSTING_DATE", Null), Entry("TOTAL", Null)>>,
   <<Entry("ACCTNAME", Str("Rent")), Entry("VENDORNAME", Undefined)>>,
   <<Entry("VENDORNAME", Str("Shell"))>>,
   <<Entry("VENDORNAME", Str("Acme")), Entry("ANNOTATION", Str("paid\nlate"))>>}

InitFormat ==
  /\ pc = "rows"
  /\ aggResults \in SeqsUpTo(FormatRowPool, MaxFormatRows)
  /\ route = "none" /\ query = Undefined /\ page = PageIdle
  /\ table = [columns |-> <<>>, rows |-> <<>>]
  /\ failure = NoFailure /\ response = NoResponse
  /\ connection = "none" /\ connectionSet = FALSE /\ destroyCalls = 0 /\ disconnectError = ""
  /\ statements = NoStatements /\ calls = <<>>
  /\ interpretation = Undefined /\ tableColumns = <<>>
  /\ sql = NoQueries /\ rawResults = <<>>
  /\ pineconeQuery = "" /\ matches = <<>> /\ pineconeData = <<>>
  /\ fused = NotBuilt /\ prompt = NotBuilt
  /\ BuilderIdle

FormatFusion ==
  /\ pc = "rows"
  /\ built' = [kind |-> "tables", fusion |-> formatResultsAsTable(aggResults)]
  /\ pc' = "fusion table"
  /\ UNCHANGED <<inputVars, failure, response, connVars, calls, dataVars, results, narrower>>

FormatKeywordRevision ==
  /\ pc = "fusion table"
  /\ built' = [keyword |-> formatResultsAsTable_part002(aggResults)] @@ built
  /\ pc' = "keyword table"
  /\ UNCHANGED <<inputVars, failure, response, connVars, calls, dataVars, results, narrower>>

FormatDateRevision ==
  /\ pc = "keyword table"
  /\ \E zone \in {"east", "west"} :
       built' = [date |-> formatResultsAsTable_part004(aggResults, zone)] @@ built
  /\ pc' = "formatted"
  /\ UNCHANGED <<inputVars, failure, response, connVars, calls, dataVars, results, narrower>>

NextFormat == FormatFusion \/ FormatKeywordRevision \/ FormatDateRevision

SpecFormat == InitFormat /\ [][NextFormat]_vars

(***************************************************************************)
(* One request served by a POST handler.  The collaborators (classifier,   *)
(* data store, embedding service, index, summarizer) answer or fail.       *)
(***************************************************************************)

\* the most matches the index returns in a drawn answer
MaxMatches == 2

Queries == {Undefined, Str(""), Str("electric bills by vendor")}

Intent(data_type, group_by, filters, mode) ==
  [data_type |-> data_type, group_by |-> group_by, filters |-> filters, mode |-> mode]

\* what the classifier may answer: text that is no JSON, no content at all,
\* or an intent (summary by vendor, search by keyword, no mode with a filter,
\* search grouped with a filter nothing matches, summary nothing matches)
ClassifierOutputs ==
  {[kind |-> "text", content |-> "not json"],
   [kind |-> "text", content |-> ""]}
  \cup
  {[kind |-> "json", value |-> i] : i \in
     {Intent(Str("expenses"), Arr(<<"vendor">>), Undefined, Str("summary")),
      Intent(Undefined, Undefined, Obj(<<Entry("keyword", Str("electric"))>>), Str("search")),
      Intent(Str("expenses"), Undefined, Obj(<<Entry("vendor", Str("Exxon"))>>), Undefined),
      Intent(Undefined, Arr(<<"vendor">>), Obj(<<Entry("vendor", Str("Nobody"))>>), Str("search")),
      Intent(Undefined, Arr(<<"vendor">>), Obj(<<Entry("vendor", Str("Nobody"))>>), Str("summary"))}}

RequestTables ==
  {[columns |-> FullCatalog,
    rows |-> <<Row("Exxon", "W1", "Utilities", "Electric bill", "", 5),
               Row("Shell", "W2", "Equipment", "pump repair", "", 7),
               Row("Exxon", "W1", "Equipment", "electric pump", "bill pending", 3)>>],
   [columns |-> FullCatalog, rows |-> <<>>]}

Match(metadata, score) == [metadata |-> metadata, score |-> score]

MatchPool ==
  {Match(Obj(<<Entry("VENDORNAME", Str("Exxon")), Entry("NOTE", Null)>>), 3),
   Match(Undefined, 2),
   Match(Obj(<<Entry("ACCTNAME", Str("Utilities"))>>), 1)}

\* the index ranks its matches by descending score
MatchLists ==
  {m \in SeqsUpTo(MatchPool, MaxMatches) :
     \A i \in 1..Len(m) : \A j \in 1..Len(m) : i < j => m[i].score > m[j].score}

Summaries == {Str("Exxon leads the expenses."), Null}

Routes == {"fusion", "modular", "singleton"}

Init ==
  /\ route \in Routes /\ page = PageIdle
  /\ query \in Queries
  /\ table \in RequestTables
  /\ pc = "start"
  /\ failure = NoFailure /\ response = NoResponse
  /\ connection = (IF route = "singleton" THEN "created" ELSE "none")
  /\ connectionSet = (route = "singleton") /\ destroyCalls = 0 /\ disconnectError = ""
  /\ statements = NoStatements /\ calls = <<>>
  /\ interpretation = Undefined /\ tableColumns = <<>>
  /\ sql = NoQueries /\ aggResults = <<>> /\ rawResults = <<>>
  /\ pineconeQuery = "" /\ matches = <<>> /\ pineconeData = <<>>
  /\ fused = NotBuilt /\ prompt = NotBuilt
  /\ BuilderIdle

\* an await rejects or a statement throws: control passes to the catch block
\* what connection.destroy hands to its callback: no error, or an error
DisconnectErrors == {"", "Error: disconnect failed"}

\* the error recorded while the handler stays at the step that failed
Throw_StaysInTry(site, error) ==
  /\ pc' = pc
  /\ failure' = [site |-> site, error |-> error]

Throw(site, error) ==
  /\ pc' = "catch"
  /\ failure' = [site |-> site, error |-> error]

Call(name) == calls' = Append(calls, name)

\* runSnowflakeQuery: the statement is compiled and run on the table
runSnowflakeQuery(q) ==
  IF q.kind = "query" /\ compiles(table, q)
  THEN [ok |-> TRUE, rows |-> resultRows(table, q)]
  ELSE [ok |-> FALSE, rows |-> <<>>]

(***************************************************************************)
(* Fusion route: app/api/query/route.ts                                    *)
(***************************************************************************)

POST_ReadBody ==
  /\ route = "fusion" /\ pc = "start"
  /\ IF Truthy(query)
     THEN pc' = "interpret" /\ UNCHANGED failure
     ELSE Throw("request", "Error: Query is required")
  /\ UNCHANGED <<inputVars, response, connVars, calls, dataVars, builderVars>>

POST_InterpretQuery ==
  /\ route = "fusion" /\ pc = "interpret"
  /\ Call("classify")
  /\ \/ Throw("classification", "Error: classifier unavailable") /\ UNCHANGED interpretation
     \/ \E out \in ClassifierOutputs :
          IF out.kind = "json"
          THEN interpretation' = out.value /\ pc' = "connect" /\ UNCHANGED failure
          ELSE /\ Throw("parse", "Error: Failed to parse GPT interpretation:\n" \o out.content)
               /\ UNCHANGED interpretation
  /\ UNCHANGED <<inputVars, response, connVars, tableColumns, sql, aggResults, rawResults,
                 pineconeQuery, matches, pineconeData, fused, prompt, builderVars>>

POST_Connect ==
  /\ route = "fusion" /\ pc = "connect"
  /\ connectionSet' = TRUE
  /\ Call("connect")
  /\ \/ connection' = "connected" /\ pc' = "columns" /\ UNCHANGED failure
     \/ connection' = "created" /\ Throw("connection", "Error: connection refused")
  /\ UNCHANGED <<inputVars, response, destroyCalls, disconnectError, statements, dataVars, builderVars>>

POST_GetTableColumns ==
  /\ route = "fusion" /\ pc = "columns"
  /\ Call("columns")
  /\ \/ tableColumns' = table.columns /\ pc' = "aggregate" /\ UNCHANGED failure
     \/ Throw("catalog", "Error: catalog lookup failed") /\ UNCHANGED tableColumns
  /\ UNCHANGED <<inputVars, response, connVars, interpretation, sql, aggResults, rawResults,
                 pineconeQuery, matches, pineconeData, fused, prompt, builderVars>>

\* fusionSmartRetrieval returning after the aggregate query in every mode
POST_AggregateQuery_ReturnsEarly ==
  /\ route = "fusion" /\ pc = "aggregate"
  /\ LET snowflakeAggQuery == buildSnowflakeQuery(interpretation, tableColumns, FALSE)
         answer == runSnowflakeQuery(snowflakeAggQuery)
     IN  /\ sql' = [sql EXCEPT !.agg = snowflakeAggQuery]
         /\ Call("aggregate")
         /\ \/ /\ answer.ok
               /\ aggResults' = answer.rows
               /\ fused' = summaryResult(answer.rows) /\ pc' = "summarize"
               /\ UNCHANGED failure
            \/ /\ Throw("execution", "Error: statement failed")
               /\ UNCHANGED <<aggResults, fused>>
  /\ UNCHANGED <<inputVars, response, connVars, interpretation, tableColumns, rawResults,
                 pineconeQuery, matches, pineconeData, prompt, builderVars>>

\* fusionSmartRetrieval up to the return of summary mode
POST_AggregateQuery ==
  /\ route = "fusion" /\ pc = "aggregate"
  /\ LET snowflakeAggQuery == buildSnowflakeQuery(interpretation, tableColumns, FALSE)
         answer == runSnowflakeQuery(snowflakeAggQuery)
     IN  /\ sql' = [sql EXCEPT !.agg = snowflakeAggQuery]
         /\ Call("aggregate")
         /\ \/ /\ answer.ok
               /\ aggResults' = answer.rows
               /\ IF isSummary(interpretation)
                  THEN fused' = summaryResult(answer.rows) /\ pc' = "summarize"
                  ELSE pc' = "embedding" /\ UNCHANGED fused
               /\ UNCHANGED failure
            \/ /\ Throw("execution", "Error: statement failed")
               /\ UNCHANGED <<aggResults, fused>>
  /\ UNCHANGED <<inputVars, response, connVars, interpretation, tableColumns, rawResults,
                 pineconeQuery, matches, pineconeData, prompt, builderVars>>

POST_CreateEmbedding ==
  /\ route = "fusion" /\ pc = "embedding"
  /\ pineconeQuery' = pineconeQueryOf(interpretation, query.s)
  /\ Call("embedding")
  /\ \/ pc' = "index" /\ UNCHANGED failure
     \/ Throw("search", "Error: embedding failed")
  /\ UNCHANGED <<inputVars, response, connVars, interpretation, tableColumns, sql, aggResults,
                 rawResults, matches, pineconeData, fused, prompt, builderVars>>

POST_QueryIndex ==
  /\ route = "fusion" /\ pc = "index"
  /\ Call("index")
  /\ \/ \E m \in MatchLists :
          /\ matches' = m
          /\ pineconeData' = pineconeBlocks(m)
          /\ pc' = "raw" /\ UNCHANGED failure
     \/ Throw("search", "Error: index query failed") /\ UNCHANGED <<matches, pineconeData>>
  /\ UNCHANGED <<inputVars, response, connVars, interpretation, tableColumns, sql, aggResults,
                 rawResults, pineconeQuery, fused, prompt, builderVars>>

\* the rest of fusionSmartRetrieval: the raw query and the combined texts
POST_RawQuery ==
  /\ route = "fusion" /\ pc = "raw"
  /\ LET snowflakeRawQuery == buildSnowflakeQuery(interpretation, tableColumns, TRUE)
         answer == runSnowflakeQuery(snowflakeRawQuery)
     IN  /\ sql' = [sql EXCEPT !.raw = snowflakeRawQuery]
         /\ Call("raw")
         /\ \/ /\ answer.ok
               /\ rawResults' = answer.rows
               /\ fused' = searchResult(aggResults, pineconeData, answer.rows)
               /\ pc' = "summarize" /\ UNCHANGED failure
            \/ /\ Throw("execution", "Error: statement failed")
               /\ UNCHANGED <<rawResults, fused>>
  /\ UNCHANGED <<inputVars, response, connVars, interpretation, tableColumns, aggResults,
                 pineconeQuery, matches, pineconeData, prompt, builderVars>>

POST_Summarize ==
  /\ route = "fusion" /\ pc = "summarize"
  /\ prompt' = [query |-> query.s, data |-> fused.combinedTextForSummary,
                note |-> fused.sourceNote]
  /\ Call("summarize")
  /\ \/ \E content \in Summaries :
          /\ response' = [status |-> 200,
                          body |-> [summary |-> content,
                                    rawData |-> Str(fused.rawDataText)]]
          /\ pc' = "finally" /\ UNCHANGED failure
     \/ Throw("summarization", "Error: summarizer unavailable") /\ UNCHANGED response
  /\ UNCHANGED <<inputVars, connVars, interpretation, tableColumns, sql, aggResults,
                 rawResults, pineconeQuery, matches, pineconeData, fused, builderVars>>

POST_Catch ==
  /\ route = "fusion" /\ pc = "catch"
  /\ response' = [status |-> 500, body |-> [error |-> Str(failure.error)]]
  /\ pc' = "finally"
  /\ UNCHANGED <<inputVars, failure, connVars, calls, dataVars, builderVars>>

\* the connection destroyed on the success path only
POST_Finally_SuccessOnly ==
  /\ route = "fusion" /\ pc = "finally"
  /\ IF connectionSet /\ failure.site = "none"
     THEN /\ connection' = "destroyed"
          /\ destroyCalls' = destroyCalls + 1
          /\ \E err \in DisconnectErrors : disconnectError' = err
          /\ Call("destroy")
     ELSE UNCHANGED <<connection, destroyCalls, disconnectError, calls>>
  /\ pc' = "done"
  /\ UNCHANGED <<inputVars, failure, response, connectionSet, statements, dataVars,
                 builderVars>>

\* the error of destroy thrown out of finally, replacing the response
POST_Finally_DisconnectRethrown ==
  /\ route = "fusion" /\ pc = "finally"
  /\ IF connectionSet
     THEN /\ connection' = "destroyed"
          /\ destroyCalls' = destroyCalls + 1
          /\ Call("destroy")
          /\ \E err \in DisconnectErrors :
               /\ disconnectError' = err
               /\ response' = IF err = "" THEN response
                              ELSE [status |-> 500, body |-> [error |-> Str(err)]]
     ELSE UNCHANGED <<connection, destroyCalls, disconnectError, calls, response>>
  /\ pc' = "done"
  /\ UNCHANGED <<inputVars, failure, connectionSet, statements, dataVars, builderVars>>

POST_Finally ==
  /\ route = "fusion" /\ pc = "finally"
  /\ IF connectionSet
     THEN /\ connection' = "destroyed"
          /\ destroyCalls' = destroyCalls + 1
          /\ \E err \in DisconnectErrors : disconnectError' = err
          /\ Call("destroy")
     ELSE UNCHANGED <<connection, destroyCalls, disconnectError, calls>>
  /\ pc' = "done"
  /\ UNCHANGED <<inputVars, failure, response, connectionSet, statements, dataVars,
                 builderVars>>

FusionRoute ==
  \/ POST_ReadBody \/ POST_InterpretQuery \/ POST_Connect \/ POST_GetTableColumns
  \/ POST_AggregateQuery \/ POST_CreateEmbedding \/ POST_QueryIndex \/ POST_RawQuery
  \/ POST_Summarize \/ POST_Catch \/ POST_Finally

(***************************************************************************)
(* Modular route: the POST handler over lib/queryInterpreter,              *)
(* lib/sqlBuilder, lib/pineconeSearch, lib/summarize and lib/queryLogger   *)
(***************************************************************************)

\* formattedMatches of runPineconeSearch (the arrow of the source is written ->)
formattedMatches(found) ==
  [i \in 1..Len(found) |->
     LET meta == OrEmptyObj(found[i].metadata)
         line == join([j \in 1..Len(meta) |-> meta[j].k \o ": " \o ToStr(meta[j].v)], " | ")
     IN  "Pinecone Match " \o ToString(i) \o " -> " \o line]

\* aggResultsString of the handler
aggResultsString(rows) ==
  join([i \in 1..Len(rows) |->
          "Result " \o ToString(i) \o ": "
            \o join([j \in 1..Len(rows[i]) |->
                       rows[i][j].k \o ": " \o ToStr(rows[i][j].v)], ", ")],
       "\n")

\* the three blocks of the debug log, in order
buildDebugLog(userQuery, gptInterpretation, sqlAgg, sqlRaw, pineconeChunks) ==
  [interpretationBlock |-> gptInterpretation,
   sqlBlock |-> [Aggregated |-> sqlAgg, Raw |-> sqlRaw],
   pineconeBlock |-> IF pineconeChunks = "" THEN "None found." ELSE pineconeChunks]

Modular_ReadBody ==
  /\ route = "modular" /\ pc = "start"
  /\ IF Truthy(query)
     THEN pc' = "connect" /\ UNCHANGED failure
     ELSE Throw("request", "Error: Missing 'query' in request.")
  /\ UNCHANGED <<inputVars, response, connVars, calls, dataVars, builderVars>>

Modular_Connect ==
  /\ route = "modular" /\ pc = "connect"
  /\ connectionSet' = TRUE
  /\ Call("connect")
  /\ \/ connection' = "connected" /\ pc' = "columns" /\ UNCHANGED failure
     \/ connection' = "created" /\ Throw("connection", "Error: connection refused")
  /\ UNCHANGED <<inputVars, response, destroyCalls, disconnectError, statements, dataVars, builderVars>>

Modular_GetTableColumns ==
  /\ route = "modular" /\ pc = "columns"
  /\ Call("columns")
  /\ \/ tableColumns' = table.columns /\ pc' = "interpret" /\ UNCHANGED failure
     \/ Throw("catalog", "Error: catalog lookup failed") /\ UNCHANGED tableColumns
  /\ UNCHANGED <<inputVars, response, connVars, interpretation, sql, aggResults, rawResults,
                 pineconeQuery, matches, pineconeData, fused, prompt, builderVars>>

\* interpretQuery(query, columns), then buildSQL
Modular_InterpretQuery ==
  /\ route = "modular" /\ pc = "interpret"
  /\ Call("classify")
  /\ \/ /\ Throw("classification", "Error: classifier unavailable")
        /\ UNCHANGED <<interpretation, sql>>
     \/ \E out \in ClassifierOutputs :
          IF out.kind = "json"
          THEN LET interpreted == interpretQuery_modular(out.value, tableColumns)
                   queries == buildSQL(interpreted, tableColumns)
               IN  /\ interpretation' = interpreted
                   /\ sql' = [agg |-> queries.sqlAgg, raw |-> queries.sqlRaw]
                   /\ pc' = "embedding" /\ UNCHANGED failure
          ELSE /\ Throw("parse", "SyntaxError: Unexpected token in JSON")
               /\ UNCHANGED <<interpretation, sql>>
  /\ UNCHANGED <<inputVars, response, connVars, tableColumns, aggResults, rawResults,
                 pineconeQuery, matches, pineconeData, fused, prompt, builderVars>>

\* runPineconeSearch: the embedding of the query text
Modular_CreateEmbedding ==
  /\ route = "modular" /\ pc = "embedding"
  /\ pineconeQuery' = query.s
  /\ Call("embedding")
  /\ \/ pc' = "index" /\ UNCHANGED failure
     \/ Throw("search", "Error: embedding failed")
  /\ UNCHANGED <<inputVars, response, connVars, interpretation, tableColumns, sql, aggResults,
                 rawResults, matches, pineconeData, fused, prompt, builderVars>>

\* runPineconeSearch: the index query and the formatted matches
Modular_QueryIndex ==
  /\ route = "modular" /\ pc = "index"
  /\ Call("index")
  /\ \/ \E m \in MatchLists :
          /\ matches' = m
          /\ pineconeData' = formattedMatches(m)
          /\ pc' = "queries" /\ UNCHANGED failure
     \/ Throw("search", "Error: index query failed") /\ UNCHANGED <<matches, pineconeData>>
  /\ UNCHANGED <<inputVars, response, connVars, interpretation, tableColumns, sql, aggResults,
                 rawResults, pineconeQuery, fused, prompt, builderVars>>

\* Promise.all: both statements are handed to the connection at once
Modular_IssueQueries ==
  /\ route = "modular" /\ pc = "queries"
  /\ calls' = calls \o <<"aggregate", "raw">>
  /\ statements' = [agg |-> "pending", raw |-> "pending"]
  /\ pc' = "awaitAll"
  /\ UNCHANGED <<inputVars, failure, response, connection, connectionSet, destroyCalls, disconnectError,
                 dataVars, builderVars>>

\* a statement completes; the handler resumes when both have resolved, or
\* at the first rejection, whatever the other statement is doing
Modular_Complete ==
  /\ route = "modular"
  /\ \E s \in {"agg", "raw"} :
       /\ statements[s] = "pending"
       /\ LET answer == runSnowflakeQuery(sql[s])
              other == IF s = "agg" THEN "raw" ELSE "agg"
          IN  \/ /\ answer.ok
                 /\ statements' = [statements EXCEPT ![s] = "resolved"]
                 /\ IF s = "agg"
                    THEN aggResults' = answer.rows /\ UNCHANGED rawResults
                    ELSE rawResults' = answer.rows /\ UNCHANGED aggResults
                 /\ pc' = IF pc = "awaitAll" /\ statements[other] = "resolved"
                          THEN "summarize" ELSE pc
                 /\ UNCHANGED failure
              \/ /\ statements' = [statements EXCEPT ![s] = "rejected"]
                 /\ IF pc = "awaitAll"
                    THEN Throw("execution", "Error: statement failed")
                    ELSE UNCHANGED <<pc, failure>>
                 /\ UNCHANGED <<aggResults, rawResults>>
  /\ UNCHANGED <<inputVars, response, connection, connectionSet, destroyCalls, disconnectError, calls,
                 interpretation, tableColumns, sql, pineconeQuery, matches, pineconeData,
                 fused, prompt, builderVars>>

\* summarizeResults(query, aggResultsString, pineconeChunks) and the response
Modular_Summarize ==
  /\ route = "modular" /\ pc = "summarize"
  /\ LET pineconeChunks == join(pineconeData, "\n\n")
     IN  /\ prompt' = [query |-> query.s, data |-> aggResultsString(aggResults),
                       note |-> pineconeChunks]
         /\ Call("summarize")
         /\ \/ \E content \in Summaries :
                 /\ response' =
                      [status |-> 200,
                       body |-> [summary |-> IF content = Null THEN Str("") ELSE content,
                                 rawData |-> [kind |-> "rows", rows |-> rawResults],
                                 debug |-> buildDebugLog(query.s, interpretation, sql.agg,
                                                         sql.raw, pineconeChunks)]]
                 /\ pc' = "finally" /\ UNCHANGED failure
            \/ Throw("summarization", "Error: summarizer unavailable") /\ UNCHANGED response
  /\ UNCHANGED <<inputVars, connVars, interpretation, tableColumns, sql, aggResults,
                 rawResults, pineconeQuery, matches, pineconeData, fused, builderVars>>

Modular_Catch ==
  /\ route = "modular" /\ pc = "catch"
  /\ response' = [status |-> 500, body |-> [error |-> Str(failure.error)]]
  /\ pc' = "finally"
  /\ UNCHANGED <<inputVars, failure, connVars, calls, dataVars, builderVars>>

Modular_Finally ==
  /\ route = "modular" /\ pc = "finally"
  /\ IF connectionSet
     THEN /\ connection' = "destroyed"
          /\ destroyCalls' = destroyCalls + 1
          /\ \E err \in DisconnectErrors : disconnectError' = err
          /\ Call("destroy")
     ELSE UNCHANGED <<connection, destroyCalls, disconnectError, calls>>
  /\ pc' = "done"
  /\ UNCHANGED <<inputVars, failure, response, connectionSet, statements, dataVars,
                 builderVars>>

ModularRoute ==
  \/ Modular_ReadBody \/ Modular_Connect \/ Modular_GetTableColumns
  \/ Modular_InterpretQuery \/ Modular_CreateEmbedding \/ Modular_QueryIndex
  \/ Modular_IssueQueries \/ Modular_Complete \/ Modular_Summarize
  \/ Modular_Catch \/ Modular_Finally

(***************************************************************************)
(* Singleton route: the POST handler over one module-level connection      *)
(***************************************************************************)

\* the rows and the matches the singleton route keeps
TopResults == 3

\* value || "n/a"
orNA(v) == IF Truthy(v) THEN ToStr(v) ELSE "n/a"

\* Object.entries(o).map(([key, value]) => `${key}: ${value || "n/a"}`).join("\n")
entryLinesOrNA(o) ==
  join([i \in 1..Len(o) |-> o[i].k \o ": " \o orNA(o[i].v)], "\n")

\* insertion of a match into a list sorted by descending score, after its equals
RECURSIVE insertByScore(_, _)
insertByScore(sorted, m) ==
  IF sorted = <<>> THEN <<m>>
  ELSE IF Head(sorted).score >= m.score
  THEN <<Head(sorted)>> \o insertByScore(Tail(sorted), m)
  ELSE <<m>> \o sorted

\* .sort((a, b) => (b.score || 0) - (a.score || 0))
RECURSIVE sortByScore(_)
sortByScore(found) ==
  IF found = <<>> THEN <<>>
  ELSE insertByScore(sortByScore(SubSeq(found, 1, Len(found) - 1)), found[Len(found)])

\* SELECT * FROM S3_GL WHERE DESCRIPTION LIKE .. OR ACCTNAME LIKE .. OR VENDORNAME LIKE .. LIMIT 3
snowflakeQuery(text) ==
  [RawQuery(<<LikeExact(<<"DESCRIPTION", "ACCTNAME", "VENDORNAME">>, text)>>)
     EXCEPT !.limit = TopResults]

\* combinedData: the numbered blocks of the matches, then of the rows
combinedData(found, rows) ==
  join([i \in 1..Len(found) |->
          "Pinecone Result " \o ToString(i) \o ":\n" \o found[i]]
       \o [i \in 1..Len(rows) |->
             "Snowflake Result " \o ToString(i) \o ":\n" \o entryLinesOrNA(rows[i])],
       "\n\n")

Singleton_ReadBody ==
  /\ route = "singleton" /\ pc = "start"
  /\ IF Truthy(query)
     THEN pc' = "embedding" /\ UNCHANGED response
     ELSE /\ response' = [status |-> 400, body |-> [message |-> Str("Query is required")]]
          /\ pc' = "finally"
  /\ UNCHANGED <<inputVars, failure, connVars, calls, dataVars, builderVars>>

Singleton_CreateEmbedding ==
  /\ route = "singleton" /\ pc = "embedding"
  /\ pineconeQuery' = query.s
  /\ Call("embedding")
  /\ \/ pc' = "index" /\ UNCHANGED failure
     \/ Throw("search", "Error: embedding failed")
  /\ UNCHANGED <<inputVars, response, connVars, interpretation, tableColumns, sql, aggResults,
                 rawResults, matches, pineconeData, fused, prompt, builderVars>>

Singleton_QueryIndex ==
  /\ route = "singleton" /\ pc = "index"
  /\ Call("index")
  /\ \/ \E m \in MatchLists :
          LET combinedPineconeResults == take(sortByScore(m), TopResults)
          IN  /\ matches' = combinedPineconeResults
              /\ pineconeData' =
                   [i \in 1..Len(combinedPineconeResults) |->
                      entryLinesOrNA(OrEmptyObj(combinedPineconeResults[i].metadata))]
              /\ pc' = "connect" /\ UNCHANGED failure
     \/ Throw("search", "Error: index query failed") /\ UNCHANGED <<matches, pineconeData>>
  /\ UNCHANGED <<inputVars, response, connVars, interpretation, tableColumns, sql, aggResults,
                 rawResults, pineconeQuery, fused, prompt, builderVars>>

Singleton_Connect ==
  /\ route = "singleton" /\ pc = "connect"
  /\ Call("connect")
  /\ \/ connection' = "connected" /\ pc' = "execute" /\ UNCHANGED failure
     \/ Throw("connection", "Error: connection refused") /\ UNCHANGED connection
  /\ UNCHANGED <<inputVars, response, connectionSet, destroyCalls, disconnectError, statements, dataVars,
                 builderVars>>

Singleton_Execute ==
  /\ route = "singleton" /\ pc = "execute"
  /\ LET q == snowflakeQuery(query.s)
         answer == runSnowflakeQuery(q)
     IN  /\ sql' = [sql EXCEPT !.raw = q]
         /\ Call("raw")
         /\ \/ /\ answer.ok
               /\ rawResults' = answer.rows
               /\ pc' = "summarize" /\ UNCHANGED failure
            \/ Throw("execution", "Error: statement failed") /\ UNCHANGED rawResults
  /\ UNCHANGED <<inputVars, response, connVars, interpretation, tableColumns, aggResults,
                 pineconeQuery, matches, pineconeData, fused, prompt, builderVars>>

Singleton_Summarize ==
  /\ route = "singleton" /\ pc = "summarize"
  /\ prompt' = [query |-> query.s, data |-> combinedData(pineconeData, rawResults),
                note |-> ""]
  /\ Call("summarize")
  /\ \/ \E content \in Summaries :
          /\ response' = [status |-> 200, body |-> [message |-> content]]
          /\ pc' = "finally" /\ UNCHANGED failure
     \/ Throw("summarization", "Error: summarizer unavailable") /\ UNCHANGED response
  /\ UNCHANGED <<inputVars, connVars, interpretation, tableColumns, sql, aggResults,
                 rawResults, pineconeQuery, matches, pineconeData, fused, builderVars>>

Singleton_Catch ==
  /\ route = "singleton" /\ pc = "catch"
  /\ response' = [status |-> 500, body |-> [message |-> Str("Error processing query.")]]
  /\ pc' = "finally"
  /\ UNCHANGED <<inputVars, failure, connVars, calls, dataVars, builderVars>>

\* the module's connection is destroyed on every path, connected or not
Singleton_Finally ==
  /\ route = "singleton" /\ pc = "finally"
  /\ connection' = "destroyed"
  /\ destroyCalls' = destroyCalls + 1
  /\ \E err \in DisconnectErrors : disconnectError' = err
  /\ Call("destroy")
  /\ pc' = "done"
  /\ UNCHANGED <<inputVars, failure, response, connectionSet, statements, dataVars,
                 builderVars>>

SingletonRoute ==
  \/ Singleton_ReadBody \/ Singleton_CreateEmbedding \/ Singleton_QueryIndex
  \/ Singleton_Connect \/ Singleton_Execute \/ Singleton_Summarize
  \/ Singleton_Catch \/ Singleton_Finally

Next == FusionRoute \/ ModularRoute \/ SingletonRoute

Spec == Init /\ [][Next]_vars

(***************************************************************************)
(* Two requests served at once by one process.  Every await of a handler   *)
(* is a point where the other request may run.  The singleton route uses   *)
(* the connection created when the module is loaded (part_001:12); the     *)
(* fusion route creates a connection inside each request (route.ts:235).   *)
(* Here pc, connectionSet, statements and response hold one value per      *)
(* request, connection holds one value per connection object, and calls    *)
(* records which request did what on which connection.                     *)
(***************************************************************************)

MaxRequests == 2

Requests == 1..MaxRequests

\* the connection object of the module scope
snowflakeConnection == 0

\* the connection object request r works on
connectionOf(r) == IF route = "singleton" THEN snowflakeConnection ELSE r

\* the statements a request runs once connected: one in the singleton route;
\* the catalog and the aggregate query, in search mode also the raw query, in
\* the fusion route
statementCounts == IF route = "singleton" THEN {1} ELSE {2, 3}

InitConcurrent ==
  /\ route \in {"fusion", "singleton"} /\ page = PageIdle
  /\ pc = [r \in Requests |-> "start"]
  /\ connection = [c \in {snowflakeConnection} \cup Requests |->
                     IF c = snowflakeConnection /\ route = "singleton"
                     THEN "created" ELSE "none"]
  /\ connectionSet = [r \in Requests |-> route = "singleton"]
  /\ statements = [r \in Requests |-> 0]
  /\ response = [r \in Requests |-> 0]
  /\ calls = <<>> /\ destroyCalls = 0 /\ disconnectError = ""
  /\ query = Undefined
  /\ table = [columns |-> <<>>, rows |-> <<>>]
  /\ failure = NoFailure
  /\ interpretation = Undefined /\ tableColumns = <<>>
  /\ sql = NoQueries /\ aggResults = <<>> /\ rawResults = <<>>
  /\ pineconeQuery = "" /\ matches = <<>> /\ pineconeData = <<>>
  /\ fused = NotBuilt /\ prompt = NotBuilt
  /\ BuilderIdle

concurrentIdle == <<inputVars, failure, dataVars, builderVars>>

\* the handler up to its connect: body, embedding and index query in the
\* singleton route (part_001:24-62); body and classification in the fusion
\* route (route.ts:229-233).  A missing query is answered 400 by the
\* singleton route without entering catch; any other failure is answered 500.
Concurrent_Begin(r) ==
  /\ pc[r] = "start"
  /\ \/ pc' = [pc EXCEPT ![r] = "connect"] /\ UNCHANGED response
     \/ /\ pc' = [pc EXCEPT ![r] = "finally"]
        /\ \E status \in (IF route = "singleton" THEN {400, 500} ELSE {500}) :
             response' = [response EXCEPT ![r] = status]
  /\ UNCHANGED <<concurrentIdle, connVars, calls>>

\* connect: part_001:65-70 on the module's connection; route.ts:235-247 on a
\* connection created by this request.  The driver accepts or refuses.
Concurrent_Connect(r) ==
  /\ pc[r] = "connect"
  /\ calls' = Append(calls, [req |-> r, op |-> "connect", conn |-> connectionOf(r)])
  /\ connectionSet' = [connectionSet EXCEPT ![r] = TRUE]
  /\ \/ /\ connection' = [connection EXCEPT ![connectionOf(r)] = "connected"]
        /\ \E n \in statementCounts : statements' = [statements EXCEPT ![r] = n]
        /\ pc' = [pc EXCEPT ![r] = "execute"]
        /\ UNCHANGED response
     \/ /\ connection' = [connection EXCEPT ![connectionOf(r)] =
                            IF @ = "none" THEN "created" ELSE @]
        /\ pc' = [pc EXCEPT ![r] = "finally"]
        /\ response' = [response EXCEPT ![r] = 500]
        /\ UNCHANGED statements
  /\ UNCHANGED <<concurrentIdle, destroyCalls, disconnectError>>

\* connection.execute: the statement is handed to the connection and the
\* handler awaits its complete callback (part_001:81-89, route.ts:55-71).
\* In the fusion route the embedding and the index query are awaited between
\* the aggregate and the raw statement and may fail (route.ts:198-208).
Concurrent_Execute(r) ==
  /\ pc[r] = "execute"
  /\ \/ /\ pc' = [pc EXCEPT ![r] = "executing"]
        /\ calls' = Append(calls, [req |-> r, op |-> "execute", conn |-> connectionOf(r)])
        /\ UNCHANGED response
     \/ /\ route = "fusion" /\ statements[r] = 1
        /\ pc' = [pc EXCEPT ![r] = "finally"]
        /\ response' = [response EXCEPT ![r] = 500]
        /\ UNCHANGED calls
  /\ UNCHANGED <<concurrentIdle, connVars>>

\* the complete callback: rows, or an error; an error whenever the connection
\* is no longer connected
Concurrent_Complete(r) ==
  /\ pc[r] = "executing"
  /\ \/ /\ connection[connectionOf(r)] = "connected"
        /\ statements' = [statements EXCEPT ![r] = @ - 1]
        /\ pc' = [pc EXCEPT ![r] = IF statements[r] > 1 THEN "execute" ELSE "summarize"]
        /\ UNCHANGED response
     \/ /\ pc' = [pc EXCEPT ![r] = "finally"]
        /\ response' = [response EXCEPT ![r] = 500]
        /\ UNCHANGED statements
  /\ UNCHANGED <<concurrentIdle, connection, connectionSet, destroyCalls, disconnectError, calls>>

\* the summarizer call and the 200 response (part_001:113-127, route.ts:261-272)
Concurrent_Summarize(r) ==
  /\ pc[r] = "summarize"
  /\ pc' = [pc EXCEPT ![r] = "finally"]
  /\ \E status \in {200, 500} : response' = [response EXCEPT ![r] = status]
  /\ UNCHANGED <<concurrentIdle, connVars, calls>>

\* finally: part_001:134-138 destroys the module's connection in every
\* request; route.ts:276-280 destroys this request's connection if assigned
Concurrent_Finally(r) ==
  /\ pc[r] = "finally"
  /\ IF connectionSet[r]
     THEN /\ connection' = [connection EXCEPT ![connectionOf(r)] = "destroyed"]
          /\ destroyCalls' = destroyCalls + 1
          /\ \E err \in DisconnectErrors : disconnectError' = err
          /\ calls' = Append(calls, [req |-> r, op |-> "destroy", conn |-> connectionOf(r)])
     ELSE UNCHANGED <<connection, destroyCalls, disconnectError, calls>>
  /\ pc' = [pc EXCEPT ![r] = "done"]
  /\ UNCHANGED <<concurrentIdle, response, connectionSet, statements>>

NextConcurrent ==
  \E r \in Requests :
    \/ Concurrent_Begin(r)
    \/ Concurrent_Connect(r)
    \/ Concurrent_Execute(r)
    \/ Concurrent_Complete(r)
    \/ Concurrent_Summarize(r)
    \/ Concurrent_Finally(r)

SpecConcurrent == InitConcurrent /\ [][NextConcurrent]_vars

(***************************************************************************)
(* The form page: app/page.tsx.  page holds the useState values summary,   *)
(* rawData, loading and error, query the text of the textarea, pc the      *)
(* position of every running handleSubmit (awaiting fetch, or awaiting     *)
(* res.json()), calls the request bodies sent and response the last        *)
(* Response a fetch resolved with.  What lies between two awaits runs to   *)
(* completion before the page is rendered again.                           *)
(***************************************************************************)

MaxSubmits == 2

PageQueries == {Str(""), Str("rent"), Str("electric bills by vendor")}

\* what the server may answer: a summary with raw data, a null summary with
\* empty raw data, the singleton route's { message }, the JSON text null, a
\* body that is no JSON, an error of the route, the singleton route's 400
PageResponses ==
  {[status |-> 200, body |-> Obj(<<Entry("summary", Str("Exxon leads the expenses.")),
                                     Entry("rawData", Str("| VENDORNAME | TOTAL |"))>>)],
   [status |-> 200, body |-> Obj(<<Entry("summary", Null), Entry("rawData", Str(""))>>)],
   [status |-> 200, body |-> Obj(<<Entry("message", Str("Exxon leads the expenses."))>>)],
   [status |-> 200, body |-> Null],
   [status |-> 200, body |-> [kind |-> "text"]],
   [status |-> 500, body |-> Obj(<<Entry("error", Str("Error: statement failed"))>>)],
   [status |-> 400, body |-> Obj(<<Entry("message", Str("Query is required"))>>)]}

\* Response.ok
ok(res) == res.status >= 200 /\ res.status <= 299

InitPage ==
  /\ page = PageIdle
  /\ query = Str("")
  /\ pc = <<>> /\ calls = <<>> /\ response = NoResponse
  /\ route = "none"
  /\ table = [columns |-> <<>>, rows |-> <<>>]
  /\ failure = NoFailure
  /\ connection = "none" /\ connectionSet = FALSE /\ destroyCalls = 0 /\ disconnectError = ""
  /\ statements = NoStatements
  /\ interpretation = Undefined /\ tableColumns = <<>>
  /\ sql = NoQueries /\ aggResults = <<>> /\ rawResults = <<>>
  /\ pineconeQuery = "" /\ matches = <<>> /\ pineconeData = <<>>
  /\ fused = NotBuilt /\ prompt = NotBuilt
  /\ BuilderIdle

pageIdle == <<route, table, failure, connVars, dataVars, builderVars>>

\* catch and finally of handleSubmit
failed(p) ==
  [p EXCEPT !.error = "An error occurred while processing your request.",
            !.loading = FALSE]

\* onChange of the textarea
Page_SetQuery ==
  /\ \E q \in PageQueries : q # query /\ query' = q
  /\ UNCHANGED <<pageIdle, page, pc, calls, response>>

\* handleSubmit that leaves the summary of the earlier submit in place
Page_Submit_KeepsSummary ==
  /\ ~page.loading
  /\ Len(calls) < MaxSubmits
  /\ page' = [summary |-> page.summary, rawData |-> "", loading |-> TRUE, error |-> ""]
  /\ calls' = Append(calls, query)
  /\ pc' = Append(pc, "fetch")
  /\ UNCHANGED <<pageIdle, query, response>>

\* the submit button, enabled unless loading, and handleSubmit up to its fetch
Page_Submit ==
  /\ ~page.loading
  /\ Len(calls) < MaxSubmits
  /\ page' = [summary |-> "", rawData |-> "", loading |-> TRUE, error |-> ""]
  /\ calls' = Append(calls, query)
  /\ pc' = Append(pc, "fetch")
  /\ UNCHANGED <<pageIdle, query, response>>

\* the request of the i-th running handleSubmit leaves pc
finished(i) == SubSeq(pc, 1, i - 1) \o SubSeq(pc, i + 1, Len(pc))

\* fetch settles: it rejects, or resolves with a Response that is not ok, or
\* resolves with one that is ok and res.json() is awaited
Page_FetchSettles ==
  /\ \E i \in 1..Len(pc) :
       /\ pc[i] = "fetch"
       /\ \/ /\ page' = failed(page)
             /\ response' = NoResponse
             /\ pc' = finished(i)
          \/ \E res \in PageResponses :
               /\ response' = res
               /\ IF ok(res)
                  THEN pc' = [pc EXCEPT ![i] = "json"] /\ UNCHANGED page
                  ELSE page' = failed(page) /\ pc' = finished(i)
  /\ UNCHANGED <<pageIdle, query, calls>>

\* res.json() settles: it rejects when the body is no JSON; reading
\* data.summary throws when data is null; else the summary and the raw data
\* are set, each with its fallback text
Page_JsonSettles ==
  /\ \E i \in 1..Len(pc) :
       /\ pc[i] = "json"
       /\ pc' = finished(i)
       /\ LET data == response.body
          IN  IF data.kind # "obj" THEN page' = failed(page)
              ELSE page' =
                     [page EXCEPT
                        !.summary = IF Truthy(Get(data.o, "summary"))
                                    THEN ToStr(Get(data.o, "summary"))
                                    ELSE "No summary available.",
                        !.rawData = IF Truthy(Get(data.o, "rawData"))
                                    THEN ToStr(Get(data.o, "rawData"))
                                    ELSE "No raw data available.",
                        !.loading = FALSE]
  /\ UNCHANGED <<pageIdle, query, calls, response>>

NextPage == Page_SetQuery \/ Page_Submit \/ Page_FetchSettles \/ Page_JsonSettles

SpecPage == InitPage /\ [][NextPage]_vars

(***************************************************************************)
(* Claims about the request handlers                                       *)
(***************************************************************************)

CollaboratorCalls ==
  {"classify", "connect", "columns", "aggregate", "raw", "embedding", "index", "summarize"}

DataStoreCalls == {"connect", "columns", "aggregate", "raw"}

called(names) == \E i \in 1..Len(calls) : calls[i] \in names

\* C1: in the fusion and the modular route, whatever step fails, a created
\* connection is destroyed exactly once by the time the handler finishes, and
\* destroy is never called twice or on a connection that was not created.
C1_ConnectionReleasedOnce ==
  route \in {"fusion", "modular"} =>
    /\ destroyCalls <= 1
    /\ destroyCalls = 1 => connectionSet
    /\ (pc = "done" /\ connectionSet) => (destroyCalls = 1 /\ connection = "destroyed")

\* a request whose statement failed has finished with its connection destroyed
C1_ReleasedAfterFailure ==
  /\ route \in {"fusion", "modular"} /\ pc = "done"
  /\ failure.site = "execution" /\ connectionSet /\ destroyCalls = 1

\* C2: every request in which a step failed ends with status 500 and a body
\* that is { error: string }.
C2_FailureAnswersError ==
  (pc = "done" /\ failure.site # "none") =>
    /\ response.status = 500
    /\ DOMAIN response.body = {"error"}
    /\ response.body.error.kind = "str"

\* C3: a request without a query, or with an empty one, ends with status 400
\* and body { message: "Query is required" }, and no collaborator was called.
C3_MissingQueryAnswers400 ==
  (pc = "done" /\ ~Truthy(query)) =>
    /\ response = [status |-> 400, body |-> [message |-> Str("Query is required")]]
    /\ ~called(CollaboratorCalls)

\* C4: once the classifier output failed to parse, no data-store call has been
\* made, none is made afterwards, and the request ends with status 500.
C4_MalformedIntentNoStoreCall ==
  failure.site = "parse" =>
    /\ ~called(DataStoreCalls)
    /\ pc = "done" => response.status = 500

\* C5: in the fusion route a request whose intent has mode "summary" never
\* runs the raw query, the embedding or the index query; its rawData is the
\* formatted aggregate table, which is also what the summarizer receives,
\* and its provenance note is empty.
C5_SummaryRunsAggregateOnly ==
  (route = "fusion" /\ interpretation # Undefined /\ interpretation.mode = Str("summary")) =>
    /\ ~called({"raw", "embedding", "index"})
    /\ fused # NotBuilt => fused.sourceNote = ""
    /\ prompt # NotBuilt =>
         (prompt.data = formatResultsAsTable(aggResults) /\ prompt.note = "")
    /\ response.status = 200 =>
         (called({"aggregate"})
            /\ response.body.rawData = Str(formatResultsAsTable(aggResults)))

\* a summary request answered 200 with the table of the aggregate rows
C5_SummaryAnswered ==
  /\ route = "fusion" /\ pc = "done" /\ response.status = 200
  /\ interpretation.mode = Str("summary") /\ Len(aggResults) > 0

\* the calls a, b, c, d were issued in this order
inOrder(a, b, c, d) ==
  \E i, j, k, l \in 1..Len(calls) :
    /\ i < j /\ j < k /\ k < l
    /\ calls[i] = a /\ calls[j] = b /\ calls[k] = c /\ calls[l] = d

\* search mode has returned from fusionSmartRetrieval
searchFused ==
  route = "fusion" /\ fused # NotBuilt /\ interpretation.mode # Str("summary")

\* the two texts of search mode: the table then the snippets by rank, and the
\* snippets by rank then one block per raw row in store order
searchTexts ==
  /\ inOrder("aggregate", "embedding", "index", "raw")
  /\ fused.combinedTextForSummary =
       join(<<formatResultsAsTable(aggResults)>> \o pineconeBlocks(matches), "\n\n")
  /\ fused.rawDataText =
       join(pineconeBlocks(matches) \o snowflakeBlocks(rawResults), "\n\n")

\* C6 as stated: in search mode (any mode but "summary") the aggregate
\* query, the semantic search with the original query text and the raw query
\* are run, and the two texts are composed as above.
C6_SearchEmbedsOriginalQuery ==
  searchFused => (pineconeQuery = query.s /\ searchTexts)

\* C6 amended: the text embedded for the semantic search is the query text
\* prefixed by the intent's data_type, or by "financial" without one; the
\* rest as stated.
C6_SearchFusesAllSources ==
  searchFused =>
    /\ pineconeQuery =
         (IF interpretation.data_type.kind = "str" /\ interpretation.data_type.s # ""
          THEN interpretation.data_type.s ELSE "financial") \o " " \o query.s
    /\ searchTexts

\* a search request that fused two snippets and two raw rows
C6_SearchFused ==
  searchFused /\ Len(matches) = 2 /\ Len(rawResults) >= 2 /\ Len(aggResults) > 0

C13_StoreFailureStillAnswers ==
  (/\ route = "fusion" /\ pc = "done"
   /\ failure.site = "execution" /\ Len(matches) >= 1
   /\ interpretation.mode # Str("summary")) =>
    /\ response.status = 200
    /\ response.body.rawData # Str("")
    /\ prompt.note # ""

\* C14: in search mode, when the semantic search fails (the embedding or the
\* index query), the request still completes with an answer built from the
\* structured results and a note saying so.
C14_SearchFailureDegrades ==
  (/\ route \in {"fusion", "modular"} /\ pc = "done"
   /\ failure.site = "search") =>
    /\ response.status = 200
    /\ prompt.note # ""

\* C15: in search mode with zero aggregate rows and n >= 1 snippets, the text
\* given to the summarizer is built from the snippets only, rawData is the n
\* snippets, and neither contains "No results found.".
C15_EmptyAggregateLeavesSnippetsOnly ==
  (searchFused /\ Len(aggResults) = 0 /\ Len(matches) >= 1 /\ Len(rawResults) = 0) =>
    /\ fused.combinedTextForSummary = join(pineconeBlocks(matches), "\n\n")
    /\ fused.rawDataText = join(pineconeBlocks(matches), "\n\n")
    /\ ~strIncludes(fused.combinedTextForSummary, "No results found.")
    /\ ~strIncludes(fused.rawDataText, "No results found.")

\* the outbound calls the request's mode requires before it is answered
requiredCalls ==
  IF route = "fusion" /\ interpretation.mode = Str("summary")
  THEN {"classify", "connect", "columns", "aggregate", "summarize"}
  ELSE {"classify", "connect", "columns", "aggregate", "embedding", "index", "raw",
        "summarize"}

\* every required call was issued and has completed without an error, the
\* summarizer's last
everyCallCompleted ==
  /\ \A c \in requiredCalls : called({c})
  /\ calls[Len(calls)] = "summarize"
  /\ statements.agg # "pending" /\ statements.raw # "pending"
  /\ failure.site = "none"

\* C19: a response is sent once, and a 200 response only when every call the
\* mode requires (classification, catalog, aggregate query, in search mode
\* the semantic search and the raw query, summarization) has completed: none
\* is pending and no earlier response precedes it.
C19_AnsweredAfterEveryCall ==
  [][(route \in {"fusion", "modular"} /\ response' # response) =>
       /\ response = NoResponse
       /\ response'.status = 200 => everyCallCompleted']_vars

\* a search request of the fusion route answered 200 after all eight calls
C19_SearchAnswered ==
  /\ route = "fusion" /\ response.status = 200
  /\ interpretation.mode = Str("search")
  /\ calls = <<"classify", "connect", "columns", "aggregate", "embedding", "index",
               "raw", "summarize">>

\* the calls issued by this step
issued == SubSeq(calls', Len(calls) + 1, Len(calls'))

\* C20: within a request no outbound call is issued twice, and once a call
\* has failed the only call still issued is the release of the connection.
C20_CallsOnceAndNoneAfterFailure ==
  [][\A i \in 1..Len(issued) :
       /\ ~called({issued[i]})
       /\ failure.site # "none" => issued[i] = "destroy"]_vars

\* a search request of the fusion route whose raw query failed, released
C20_FailedThenReleased ==
  /\ route = "fusion" /\ pc = "done" /\ failure.site = "execution"
  /\ calls = <<"classify", "connect", "columns", "aggregate", "embedding", "index",
               "raw", "destroy">>

\* C21: when the release of the connection fails after the pipeline
\* succeeded, the error is only logged: the response stays the 200 payload
\* with the summary and the rawData the pipeline produced.
C21_DisconnectErrorOnlyLogged ==
  (/\ route \in {"fusion", "modular"} /\ pc = "done"
   /\ failure.site = "none" /\ disconnectError # "") =>
    /\ response.status = 200
    /\ response.body.summary \in Summaries \cup {Str("")}
    /\ response.body.rawData =
         (IF route = "fusion" THEN Str(fused.rawDataText)
          ELSE [kind |-> "rows", rows |-> rawResults])

\* a request of the fusion route that succeeded and whose destroy failed
C21_DisconnectFailedAfterSuccess ==
  /\ route = "fusion" /\ pc = "done" /\ failure.site = "none"
  /\ disconnectError # "" /\ response.status = 200

\* C27: in the modular route the connection is not destroyed while one of
\* the two statements issued together is still in flight, also when the
\* other one has failed.
C27_NoDestroyWhileInFlight ==
  (route = "modular" /\ destroyCalls > 0) =>
    (statements.agg # "pending" /\ statements.raw # "pending")

(***************************************************************************)
(* Claims about concurrent requests                                        *)
(***************************************************************************)

\* request r is connected and has a statement to execute or in execution
statementAhead(r) == pc[r] \in {"execute", "executing"}

\* this step is a connect or a destroy issued by request r
connectionStepOf(r) ==
  /\ Len(calls') = Len(calls) + 1
  /\ calls'[Len(calls')].req = r
  /\ calls'[Len(calls')].op \in {"connect", "destroy"}

\* C18: requests share no connection: whenever a request connects or
\* destroys a connection, no other request has a statement to execute, or in
\* execution, on that connection.
C18_NoSharedConnection ==
  [][\A r \in Requests :
       connectionStepOf(r) =>
         \A s \in Requests \ {r} :
           ~(statementAhead(s) /\ connectionOf(s) = calls'[Len(calls')].conn)]_vars

(***************************************************************************)
(* Claims about the form page                                              *)
(***************************************************************************)

\* C30: loading is true exactly while a request is in flight and at most one
\* request is in flight; when loading is false after a submit, exactly one
\* of the error message and the summary is shown, and a summary shown is the
\* one of the last response, on the success path and on every failure path.
C30_LoadingGuardsOneOutcome ==
  /\ page.loading <=> pc # <<>>
  /\ Len(pc) <= 1
  /\ (~page.loading /\ calls # <<>>) =>
       /\ page.error # "" <=> page.summary = ""
       /\ page.summary # "" =>
            /\ response.status = 200 /\ response.body.kind = "obj"
            /\ page.summary \in {ToStr(Get(response.body.o, "summary")),
                                 "No summary available."}

\* a failed submit after a successful one: only the error is shown
C30_FailureAfterSuccess ==
  /\ Len(calls) = 2 /\ ~page.loading
  /\ page.error # "" /\ page.summary = "" /\ response.status = 500

(***************************************************************************)
(* Claims about the result formatters                                      *)
(***************************************************************************)

\* the positions at which sep occurs in s
occurrences(s, sep) ==
  {i \in 1..(Len(s) - Len(sep) + 1) : SubSeq(s, i, i + Len(sep) - 1) = sep}

\* the pieces of s between the occurrences of sep, as a set of [from, text]
splitAt(s, sep) ==
  LET ends == occurrences(s, sep) \cup {Len(s) + 1}
      starts == {1} \cup {i + Len(sep) : i \in occurrences(s, sep)}
  IN  {[from |-> a,
        text |-> SubSeq(s, a, (CHOOSE e \in ends :
                                 e >= a /\ \A f \in ends : f >= a => e <= f) - 1)] :
         a \in starts}

\* the cells of a table line "| a | b |"
cellsOf(line) == splitAt(SubSeq(line, 3, Len(line) - 2), " | ")

\* C16: formatResultsAsTable (route.ts) gives "No results found." for no
\* rows; for n >= 1 rows it gives exactly n + 2 lines, each with as many
\* cells as the first row has keys, whatever keys the later rows have.
C16_TableShape ==
  pc = "formatted" =>
    IF aggResults = <<>> THEN built.fusion = "No results found."
    ELSE LET lines == splitAt(built.fusion, "\n")
         IN  /\ Cardinality(lines) = Len(aggResults) + 2
             /\ \A line \in lines :
                  Cardinality(cellsOf(line.text)) = Len(aggResults[1])

\* the rows with every null and undefined value replaced by the empty string
blanked(rows) ==
  [r \in 1..Len(rows) |->
     [i \in 1..Len(rows[r]) |->
        [k |-> rows[r][i].k,
         v |-> IF rows[r][i].v.kind \in {"null", "undefined"} THEN Str("")
               ELSE rows[r][i].v]]]

\* C17: in every formatter (route.ts, keyword revision, date revision) a null
\* or undefined value is rendered as the empty string, in every column: the
\* table is the one of the rows with those values replaced by "".
C17_NullRendersEmpty ==
  pc = "formatted" =>
    /\ built.fusion = formatResultsAsTable(blanked(aggResults))
    /\ built.keyword = formatResultsAsTable_part002(blanked(aggResults))
    /\ \E zone \in {"east", "west"} :
         built.date = formatResultsAsTable_part004(blanked(aggResults), zone)

(***************************************************************************)
(* Claims about the generated queries                                      *)
(***************************************************************************)

\* the identifiers a query names in SELECT, GROUP BY, ORDER BY and as the
\* field of a comparison
resolvedIdents(q) ==
  Range(q.selectFields) \cup Range(q.groupByClause) \cup Range(q.orderByClause)
    \cup {q.where[i].field : i \in {j \in 1..Len(q.where) : q.where[j].kind = "cmp"}}

\* C8: the queries of buildSnowflakeQuery (route.ts) and of safeMapFields /
\* extractExcludeClauses + buildSQL name, in SELECT, GROUP BY, ORDER BY and as
\* the field of an equality or inequality, only members of the catalog, and
\* no term makes building fail.
C8_OnlyCatalogIdentifiers ==
  pc = "built" =>
    \A q \in {built.fusionAgg, built.fusionRaw, built.sqlAgg, built.sqlRaw} :
      /\ q.kind = "query"
      /\ resolvedIdents(q) \subseteq Range(tableColumns)

\* C23: the aggregate of the aggregate query follows data_type: SUM over
\* BALANCE for a flow quantity such as "expenses", the bare BALANCE column
\* for "balances", which is also the default when data_type is missing.
C23_AggregateFollowsDataType ==
  pc = "date" =>
    \A q \in {built.fusionAgg, built.sqlAgg} :
      q.kind = "query" =>
        q.total = (IF interpretation.data_type = Str("expenses")
                   THEN <<"SUM", "BALANCE">> ELSE <<"BALANCE">>)

\* C22: the parsed Intent is never changed by a later stage: after the date
\* revision's interpretQuery has run (keyword fix-up, exclude normalization),
\* the parsed object still equals what the classifier answered.
C22_ParsedIntentUnchanged ==
  pc = "date" => built.dateParsed = interpretation

\* C11: whenever the resolved group_by is empty, the aggregate query of every
\* builder (route.ts, buildSQL, the keyword revision, the Supabase revision
\* in summary mode) selects SUM(BALANCE) AS TOTAL alone and has neither a
\* GROUP BY nor an ORDER BY clause.
C11_PureTotalWithoutGroupBy ==
  pc = "supabase" =>
    \A q \in {built.fusionAgg, built.sqlAgg, built.revAgg, built.supaQuery} :
      (q.kind = "query" /\ ~q.isRaw /\ q.groupByClause = <<>>) =>
        q.text = [select |-> "SUM(BALANCE) AS TOTAL", groupBy |-> "", orderBy |-> ""]

\* the canonical form of a term: lower case, no surrounding whitespace
canonical(term) == trim(toLowerCase(term))

\* the columns a group_by resolves to when every term is read in its
\* canonical form: the alias of each term, kept when the catalog has it
canonicalGroupBy(aliases, terms, catalog) ==
  LET inCatalog(col) == includes(catalog, col)
  IN  SelectSeq([i \in 1..Len(terms) |-> aliases[canonical(terms[i])]], inCatalog)

\* the literal-valued filter entries whose key is, in canonical form, an
\* alias of a catalog column
canonicalFilters(aliases, intent, catalog) ==
  LET f == OrEmptyObj(intent.filters)
  IN  {Cmp(aliases[canonical(f[i].k)], "=", f[i].v.s) :
         i \in {j \in 1..Len(f) :
                  /\ f[j].v.kind = "str"
                  /\ canonical(f[j].k) \in DOMAIN aliases
                  /\ includes(catalog, aliases[canonical(f[j].k)])}}

\* C12: a term that is in the alias table up to letter case and surrounding
\* whitespace resolves to the column of its canonical form: in group_by for
\* buildSnowflakeQuery (route.ts) and safeMapFields, and as a filter key of
\* buildSnowflakeQuery (where no keyword replaces the filters).
C12_ResolutionIgnoresCaseAndBlanks ==
  (pc = "built" /\ interpretation.group_by.kind = "arr") =>
    LET terms == interpretation.group_by.a
        known(aliases) == \A i \in 1..Len(terms) : canonical(terms[i]) \in DOMAIN aliases
    IN  /\ known(columnMapping) =>
             built.fusionAgg.selectFields
               = canonicalGroupBy(columnMapping, terms, tableColumns)
        /\ known(columnMapping_columns) =>
             built.sqlAgg.selectFields
               = canonicalGroupBy(columnMapping_columns, terms, tableColumns)
        /\ keywordsOf(interpretation) = <<>> =>
             canonicalFilters(columnMapping, interpretation, tableColumns)
               \subseteq Range(built.fusionRaw.where)

\* C9: with a keyword added to the list, the rows a builder's predicate keeps
\* are among the rows it kept before (for every builder whose two queries ran).
C9_KeywordNarrowing ==
  (pc = "executed" /\ narrower # NotBuilt) =>
    /\ (results.fusion.ok /\ narrower.fusion.ok) =>
         Range(results.fusion.rows) \subseteq Range(narrower.fusion.rows)
    /\ (results.sql.ok /\ narrower.sql.ok) =>
         Range(results.sql.rows) \subseteq Range(narrower.sql.rows)
    /\ (results.rev.ok /\ narrower.rev.ok) =>
         Range(results.rev.rows) \subseteq Range(narrower.rev.rows)

\* whether a builder resolves a filter key to a catalog column: the key mapped
\* through its alias table (or kept) is in the catalog, letter case ignored
\* where the builder ignores it
resolvesKey(aliases, foldCase, catalog, key) ==
  LET field == mapOr(aliases, toLowerCase(key), key)
  IN  IF foldCase
      THEN \E i \in 1..Len(catalog) : toLowerCase(catalog[i]) = toLowerCase(field)
      ELSE includes(catalog, field)

\* the predicate the claim expects for one named filter entry: an equality
\* for a literal, the operator's comparison for an [operator, literal] pair,
\* one inequality per literal of an exclude value
expectedOfEntry(field, v) ==
  CASE v.kind = "str" -> {Cmp(field, "=", v.s)}
    [] v.kind = "arr" /\ Len(v.a) = 2 -> {Cmp(field, v.a[1], v.a[2])}
    [] v.kind = "obj" /\ HasKey(v.o, "exclude") ->
         LET x == Get(v.o, "exclude")
         IN  {Cmp(field, "!=", lit) :
                lit \in IF x.kind = "arr" THEN Range(x.a) ELSE {ToStr(x)}}
    [] OTHER -> {}

\* the predicates the claim expects for the resolved named filters of an
\* intent (the entries other than keyword and exclude)
expectedNamed(aliases, foldCase, intent, catalog) ==
  LET f == OrEmptyObj(intent.filters)
  IN  UNION {expectedOfEntry(mapOr(aliases, toLowerCase(f[i].k), f[i].k), f[i].v) :
               i \in {j \in 1..Len(f) :
                        /\ toLowerCase(f[j].k) \notin {"keyword", "exclude"}
                        /\ resolvesKey(aliases, foldCase, catalog, f[j].k)}}

\* the inequalities the claim expects for the resolved entries of the
\* exclude sub-mapping
expectedExcluded(aliases, foldCase, intent, catalog) ==
  LET x == OrEmptyObj(Get(OrEmptyObj(intent.filters), "exclude"))
  IN  {Cmp(mapOr(aliases, toLowerCase(x[i].k), x[i].k), "!=", ToStr(x[i].v)) :
         i \in {j \in 1..Len(x) : resolvesKey(aliases, foldCase, catalog, x[j].k)}}

\* the WHERE clause of q is the conjunction the claim describes
whereConforms(aliases, foldCase, intent, catalog, q) ==
  LET hasKeyword == keywordsOf(intent) # <<>>
      expected == expectedNamed(aliases, foldCase, intent, catalog)
                    \cup expectedExcluded(aliases, foldCase, intent, catalog)
  IN  q.kind = "query" =>
        /\ hasKeyword <=> \E i \in 1..Len(q.where) : q.where[i].kind \in {"like", "or"}
        /\ expected \subseteq Range(q.where)
        /\ q.where = <<>> <=> (~hasKeyword /\ expected = {})

\* C10: in every builder the WHERE predicate is the conjunction of the keyword
\* clause, one equality per resolved named filter and one inequality per
\* resolved exclude filter, and is absent exactly when all three are empty.
C10_WhereIsConjunction ==
  pc = "built" =>
    /\ whereConforms(columnMapping, FALSE, interpretation, tableColumns, built.fusionAgg)
    /\ whereConforms(columnMapping, FALSE, interpretation, tableColumns, built.fusionRaw)
    /\ whereConforms(columnMapping_columns, TRUE, interpretation, tableColumns, built.sqlAgg)
    /\ whereConforms(columnMapping_columns, TRUE, interpretation, tableColumns, built.sqlRaw)
    /\ whereConforms(columnMapping_part002, FALSE, interpretation, tableColumns, built.revAgg)
    /\ whereConforms(columnMapping_part002, FALSE, interpretation, tableColumns, built.revRaw)

\* C24: an exclude sub-mapping filters.exclude = { field: literal } whose
\* field resolves to a catalog column puts field != literal in the WHERE
\* predicate of the aggregate and of the raw query, in route.ts and in the
\* modular builder.
C24_ExcludeSubMappingApplied ==
  pc = "date" =>
    /\ \A q \in {built.fusionAgg, built.fusionRaw} :
         q.kind = "query" =>
           expectedExcluded(columnMapping, FALSE, interpretation, tableColumns)
             \subseteq Range(q.where)
    /\ \A q \in {built.sqlAgg, built.sqlRaw} :
         q.kind = "query" =>
           expectedExcluded(columnMapping_columns, TRUE, interpretation, tableColumns)
             \subseteq Range(q.where)

\* the catalog's identifier a term equals ignoring case and surrounding
\* blanks, for each term that has one
catalogMatches(terms, catalog) ==
  LET matchOf(term) == {c \in Range(catalog) : toLowerCase(c) = canonical(term)}
      matched(term) == matchOf(term) # {}
      kept == SelectSeq(terms, matched)
  IN  [i \in 1..Len(kept) |-> CHOOSE c \in matchOf(kept[i]) : TRUE]

\* the group_by terms of the intent, none of which is in the alias table
unaliased(aliases, terms) ==
  \A i \in 1..Len(terms) : canonical(terms[i]) \notin DOMAIN aliases

\* C25: a group_by term without an alias resolves to a catalog column exactly
\* when it equals the column's identifier ignoring letter case, to the
\* catalog's own identifier; any other such term is dropped.
C25_UnaliasedTermMatchesCatalog ==
  pc = "date" =>
    LET terms == OrEmptyArr(interpretation.group_by)
    IN  /\ (built.fusionAgg.kind = "query" /\ unaliased(columnMapping, terms)) =>
             built.fusionAgg.groupByClause = catalogMatches(terms, tableColumns)
        /\ (built.sqlAgg.kind = "query" /\ unaliased(columnMapping_columns, terms)) =>
             built.sqlAgg.groupByClause = catalogMatches(terms, tableColumns)

\* C26: a term is accepted by extractExcludeClauses as an exclude field
\* exactly when safeMapFields accepts it as a group_by field, and both
\* resolve it to the same column identifier.
C26_ExcludeResolvesLikeGroupBy ==
  pc = "both ways" =>
    \A i \in 1..Len(built.bothWays) :
      LET asGroupBy == built.bothWays[i].group_by.a
          asExclude == built.bothWays[i].exclude
      IN  /\ asGroupBy # <<>> <=> asExclude # <<>>
          /\ asGroupBy # <<>> => asExclude = <<Cmp(asGroupBy[1], "!=", "x")>>

\* the columns a query names without taking them from the intent: the text
\* columns of the keyword search and the amount column of the aggregate
fixedIdents(q) ==
  (IF q.total = <<>> THEN {} ELSE {q.total[2]})
    \cup UNION {clauseIdents(q.where[i]) :
                  i \in {j \in 1..Len(q.where) : q.where[j].kind # "cmp"}}

\* C28: the fixed columns of the generated queries (the keyword-search text
\* columns and BALANCE) are members of the catalog fetched for the request,
\* for every catalog and intent, in route.ts and in the modular builder.
C28_FixedColumnsInCatalog ==
  pc = "date" =>
    \A q \in {built.fusionAgg, built.fusionRaw, built.sqlAgg, built.sqlRaw} :
      q.kind = "query" => fixedIdents(q) \subseteq Range(tableColumns)

\* no element occurs twice in the sequence
distinct(s) == \A i, j \in 1..Len(s) : s[i] = s[j] => i = j

\* C29: the resolved group-by list has no duplicates: a column to which two
\* group_by terms resolve appears once in the SELECT list, the GROUP BY and
\* the ORDER BY clause of the aggregate query.
C29_GroupByWithoutDuplicates ==
  pc = "date" =>
    \A q \in {built.fusionAgg, built.sqlAgg} :
      q.kind = "query" =>
        distinct(q.selectFields) /\ distinct(q.groupByClause) /\ distinct(q.orderByClause)

=============================================================================
